---- MODULE Spec2Model ----
(***************************************************************************)
(* A model of docs2llms (src/mod.ts): the command line is parsed into a    *)
(* configuration, a remote source is cloned into a temporary directory,    *)
(* the source tree is walked (getDirectory), and the matched files are     *)
(* previewed, analysed, summarised or written (writeFiles).                *)
(*                                                                         *)
(* Strings are sequences of atoms.  An atom is a piece of text that no     *)
(* operation of the program splits ("guide", "--local"); the characters    *)
(* the program does look at (".", "/", ",", "\n", " ", the letters of the  *)
(* extensions, digits) are atoms of one character each.                    *)
(***************************************************************************)
EXTENDS Integers, Sequences, FiniteSets, TLC

-----------------------------------------------------------------------------
(* Strings *)

EndsWith(s, suf) ==
    /\ Len(suf) <= Len(s)
    /\ SubSeq(s, Len(s) - Len(suf) + 1, Len(s)) = suf

StartsWith(s, pre) ==
    /\ Len(pre) <= Len(s)
    /\ SubSeq(s, 1, Len(pre)) = pre

Includes(s, atom) == \E i \in 1..Len(s) : s[i] = atom

RECURSIVE Split(_, _)
\* String.prototype.split(sep), sep one atom: the pieces between separators.
Split(s, sep) ==
    IF ~Includes(s, sep) THEN <<s>>
    ELSE LET k == CHOOSE i \in 1..Len(s) :
                     s[i] = sep /\ \A j \in 1..(i - 1) : s[j] # sep
         IN  <<SubSeq(s, 1, k - 1)>> \o Split(SubSeq(s, k + 1, Len(s)), sep)

RECURSIVE JoinWith(_, _)
\* Array.prototype.join(sep): the elements with sep between consecutive ones.
JoinWith(xs, sep) ==
    IF xs = <<>> THEN <<>>
    ELSE IF Len(xs) = 1 THEN xs[1]
    ELSE xs[1] \o sep \o JoinWith(Tail(xs), sep)

Last(s) == s[Len(s)]

\* s.replace(sub, rep) with a string pattern: the first occurrence only.
ReplaceFirst(s, sub, rep) ==
    LET at == {i \in 1..(Len(s) - Len(sub) + 1) : SubSeq(s, i, i + Len(sub) - 1) = sub}
    IN  IF at = {} THEN s
        ELSE LET k == CHOOSE i \in at : \A j \in at : i <= j
             IN  SubSeq(s, 1, k - 1) \o rep \o SubSeq(s, k + Len(sub), Len(s))

-----------------------------------------------------------------------------
(* Paths (jsr:@std/path, POSIX) *)

Components(p) == SelectSeq(Split(p, "/"), LAMBDA c : c # <<>> /\ c # <<".">>)

\* normalize(): "." and empty components dropped; the empty path is ".".
Normalize(p) ==
    IF Components(p) = <<>> THEN <<".">> ELSE JoinWith(Components(p), <<"/">>)

Join(a, b) == Normalize(a \o <<"/">> \o b)

Basename(p) == IF Components(p) = <<>> THEN <<>> ELSE Last(Components(p))

Dirname(p) ==
    LET c == Components(p)
    IN  IF Len(c) <= 1 THEN <<".">>
        ELSE JoinWith(SubSeq(c, 1, Len(c) - 1), <<"/">>)

RECURSIVE CommonPrefixLen(_, _)
CommonPrefixLen(a, b) ==
    IF a = <<>> \/ b = <<>> \/ Head(a) # Head(b) THEN 0
    ELSE 1 + CommonPrefixLen(Tail(a), Tail(b))

\* A relative() that keeps only the last component of to.
Relative_Basename(from, to) ==
    LET t == Components(to) IN t[Len(t)]

\* relative(from, to): ".." for every component of from after the common
\* prefix, then the rest of to.
Relative(from, to) ==
    LET f == Components(from)
        t == Components(to)
        k == CommonPrefixLen(f, t)
    IN  JoinWith([i \in 1..(Len(f) - k) |-> <<"..">>]
                   \o SubSeq(t, k + 1, Len(t)), <<"/">>)

-----------------------------------------------------------------------------
(* The file system: a function from normalized paths to nodes.  A directory
   keeps its entries in listing order (the order Deno.readDir yields them);
   a file has its text, its size in bytes (Deno.stat) and whether it can be
   read; a symbolic link has a target path.  The text of a source file
   abbreviates its bytes, so its size is stated separately. *)

DirNode(entries) ==
    [kind |-> "dir", entries |-> entries, content |-> <<>>, size |-> 0,
     readable |-> TRUE, target |-> <<>>]

FileNode(content, size, readable) ==
    [kind |-> "file", entries |-> <<>>, content |-> content, size |-> size,
     readable |-> readable, target |-> <<>>]

LinkNode(target) ==
    [kind |-> "symlink", entries |-> <<>>, content |-> <<>>, size |-> 0,
     readable |-> TRUE, target |-> target]

Exists(f, p) == p \in DOMAIN f

\* The node a path denotes after following a symbolic link (Deno.stat,
\* Deno.readTextFile and Deno.writeTextFile follow links); "none" when the
\* path or the link's target does not exist.
Resolve(f, p) ==
    IF ~Exists(f, p) THEN <<>>
    ELSE IF f[p].kind = "symlink"
         THEN (IF Exists(f, f[p].target) THEN f[p].target ELSE <<>>)
         ELSE p

\* Deno.writeTextFile(path, text): creates or truncates the file; fails when
\* the parent directory is missing or the path is a directory.
CanWrite(f, p) ==
    IF Exists(f, p)
    THEN Resolve(f, p) # <<>> /\ f[Resolve(f, p)].kind = "file"
    ELSE Exists(f, Dirname(p)) /\ f[Dirname(p)].kind = "dir"

WriteFile(f, p, text) ==
    IF Exists(f, p)
    THEN [f EXCEPT ![Resolve(f, p)] = FileNode(text, Len(text), TRUE)]
    ELSE (p :> FileNode(text, Len(text), TRUE)) @@
         [f EXCEPT ![Dirname(p)].entries = Append(@, Basename(p))]

\* Deno.copyFile(from, to): to gets the bytes of from.
CopyFile(f, from, to) ==
    IF Exists(f, to)
    THEN [f EXCEPT ![Resolve(f, to)] =
              FileNode(f[Resolve(f, from)].content, f[Resolve(f, from)].size, TRUE)]
    ELSE (to :> FileNode(f[Resolve(f, from)].content, f[Resolve(f, from)].size, TRUE)) @@
         [f EXCEPT ![Dirname(to)].entries = Append(@, Basename(to))]

CanCopy(f, from, to) ==
    /\ Resolve(f, from) # <<>>
    /\ f[Resolve(f, from)].kind = "file"
    /\ f[Resolve(f, from)].readable
    /\ CanWrite(f, to)

\* A tree, given by paths relative to its root, placed at root.
Mount(tree, root) ==
    [p \in {Join(root, q) : q \in DOMAIN tree} |->
        LET q == CHOOSE r \in DOMAIN tree : Join(root, r) = p
        IN  IF tree[q].kind = "symlink"
            THEN LinkNode(Join(root, tree[q].target))
            ELSE tree[q]]

\* Deno.remove(path, {recursive: true}): the path and everything below it.
RemoveTree(f, p) ==
    LET gone == {q \in DOMAIN f : q = p \/ StartsWith(q, p \o <<"/">>)}
        keep == DOMAIN f \ gone
    IN  [q \in keep |->
            IF q = Dirname(p) /\ f[q].kind = "dir"
            THEN [f[q] EXCEPT !.entries =
                      SelectSeq(@, LAMBDA n : n # Basename(p))]
            ELSE f[q]]

-----------------------------------------------------------------------------
(* Program constants *)

DEFAULT_BRANCH == <<"main">>

IGNORE_DIRECTORIES == {<<"node_modules">>, <<".", "git">>, <<"dist">>, <<"build">>}

SUPPORTED_EXTENSIONS ==
    {<<".", "m", "d">>, <<".", "m", "d", "x">>, <<".", "t", "x", "t">>,
     <<".", "r", "s", "t">>}

\* The number of bytes in a megabyte (maxSize * 1024 * 1024).
BytesPerMB == 1024 * 1024

-----------------------------------------------------------------------------
(* Inputs: source trees.  Each is given relative to its root. *)

Md(stem)  == <<stem, ".", "m", "d">>
Mdx(stem) == <<stem, ".", "m", "d", "x">>
Txt(stem) == <<stem, ".", "t", "x", "t">>
Rst(stem) == <<stem, ".", "r", "s", "t">>

P2(a, b)    == a \o <<"/">> \o b
P3(a, b, c) == a \o <<"/">> \o b \o <<"/">> \o c

Text(word) == <<word, " ", "text", "\n">>

Small(word) == FileNode(Text(word), 20, TRUE)

\* Scenario A: guide.md next to a directory holding an image.
TreeGuide ==
    (<<".">> :> DirNode(<<Md("guide"), <<"img">>>>)) @@
    (Md("guide") :> Small("guide")) @@
    (<<"img">> :> DirNode(<<<<"diagram", ".", "png">>, Txt("notes")>>)) @@
    (P2(<<"img">>, <<"diagram", ".", "png">>) :> Small("png")) @@
    (P2(<<"img">>, Txt("notes")) :> Small("notes"))

\* Scenario B, with skipped, hidden and built-in ignored directories at two
\* depths and a directory listed between two files.
TreeSkip ==
    (<<".">> :> DirNode(<<Md("a"), <<"skip">>, Txt("b"), <<"sub">>>>)) @@
    (Md("a") :> Small("a")) @@
    (<<"skip">> :> DirNode(<<Md("c")>>)) @@
    (P2(<<"skip">>, Md("c")) :> Small("c")) @@
    (Txt("b") :> Small("b")) @@
    (<<"sub">> :> DirNode(<<<<".", "hid">>, Rst("e"), <<"skip">>, <<"build">>>>)) @@
    (P2(<<"sub">>, <<".", "hid">>) :> DirNode(<<Md("h")>>)) @@
    (P3(<<"sub">>, <<".", "hid">>, Md("h")) :> Small("h")) @@
    (P2(<<"sub">>, Rst("e")) :> Small("e")) @@
    (P2(<<"sub">>, <<"skip">>) :> DirNode(<<Mdx("d")>>)) @@
    (P3(<<"sub">>, <<"skip">>, Mdx("d")) :> Small("d")) @@
    (P2(<<"sub">>, <<"build">>) :> DirNode(<<Txt("o")>>)) @@
    (P3(<<"sub">>, <<"build">>, Txt("o")) :> Small("o"))

\* Files at and one byte over half a megabyte, one megabyte and two.
TreeSizes ==
    (<<".">> :> DirNode(<<Md("one"), Md("over"), Txt("half"), Txt("halfover"),
                          Mdx("two"), Mdx("twoover")>>)) @@
    (Md("one") :> FileNode(Text("one"), BytesPerMB, TRUE)) @@
    (Md("over") :> FileNode(Text("over"), BytesPerMB + 1, TRUE)) @@
    (Txt("half") :> FileNode(Text("half"), BytesPerMB \div 2, TRUE)) @@
    (Txt("halfover") :> FileNode(Text("halfover"), BytesPerMB \div 2 + 1, TRUE)) @@
    (Mdx("two") :> FileNode(Text("two"), 2 * BytesPerMB, TRUE)) @@
    (Mdx("twoover") :> FileNode(Text("twoover"), 2 * BytesPerMB + 1, TRUE))

\* A symbolic link to a file and a hidden file, both with a recognized name.
TreeLink ==
    (<<".">> :> DirNode(<<<<"ln", ".", "m", "d">>, Md("a"), <<".", "dot", ".", "m", "d">>>>)) @@
    (<<"ln", ".", "m", "d">> :> LinkNode(Md("a"))) @@
    (Md("a") :> Small("a")) @@
    (<<".", "dot", ".", "m", "d">> :> Small("dot"))

\* A symbolic link, with a recognized name, to a directory.
TreeDirLink ==
    (<<".">> :> DirNode(<<Md("a"), <<"d">>, <<"dl", ".", "m", "d">>>>)) @@
    (Md("a") :> Small("a")) @@
    (<<"d">> :> DirNode(<<Txt("x")>>)) @@
    (P2(<<"d">>, Txt("x")) :> Small("x")) @@
    (<<"dl", ".", "m", "d">> :> LinkNode(<<"d">>))

\* A symbolic link whose target is missing.
TreeBroken ==
    (<<".">> :> DirNode(<<Md("a"), <<"br", ".", "m", "d">>, Txt("b")>>)) @@
    (Md("a") :> Small("a")) @@
    (<<"br", ".", "m", "d">> :> LinkNode(<<"missing">>)) @@
    (Txt("b") :> Small("b"))

\* A matched file that cannot be read.
TreeUnreadable ==
    (<<".">> :> DirNode(<<Md("a"), Md("u"), Txt("b")>>)) @@
    (Md("a") :> Small("a")) @@
    (Md("u") :> FileNode(Text("u"), 20, FALSE)) @@
    (Txt("b") :> Small("b"))

\* A file whose name begins with a dot, next to an ordinary one.
TreeDot ==
    (<<".">> :> DirNode(<<<<".", "notes", ".", "m", "d">>, Md("a")>>)) @@
    (<<".", "notes", ".", "m", "d">> :> Small("notes")) @@
    (Md("a") :> Small("a"))

TreeEmpty == (<<".">> :> DirNode(<<>>))

Trees ==
    {TreeGuide, TreeSkip, TreeSizes, TreeLink, TreeDirLink, TreeBroken,
     TreeUnreadable, TreeEmpty, TreeDot}

\* The working directory holds the tree as its directory docs.
World(tree) ==
    (<<".">> :> DirNode(<<<<"docs">>>>)) @@
    (<<"/tmp">> :> DirNode(<<>>)) @@
    Mount(tree, <<"docs">>)

\* The same, with outputs that an earlier use of the program left in the
\* working directory.
WorldWithOutputs(tree) ==
    (<<".">> :> DirNode(<<<<"docs">>, Txt("llms"), <<"llms-", "full", ".", "t", "x", "t">>>>)) @@
    (Txt("llms") :> FileNode(<<"old", " ", "index", "\n">>, 10, TRUE)) @@
    (<<"llms-", "full", ".", "t", "x", "t">> :> FileNode(<<"old", " ", "content", "\n">>, 12, TRUE)) @@
    (<<"/tmp">> :> DirNode(<<>>)) @@
    Mount(tree, <<"docs">>)

\* The same, with the link index alone left by an earlier use.
WorldWithIndex(tree) ==
    (<<".">> :> DirNode(<<<<"docs">>, Txt("llms")>>)) @@
    (Txt("llms") :> FileNode(<<"old", " ", "index", "\n">>, 10, TRUE)) @@
    (<<"/tmp">> :> DirNode(<<>>)) @@
    Mount(tree, <<"docs">>)

\* The same as WorldWithOutputs, the full content without read permission.
WorldWithLockedFull(tree) ==
    [WorldWithOutputs(tree) EXCEPT
        ![<<"llms-", "full", ".", "t", "x", "t">>].readable = FALSE]

\* The worlds a tree is tried in.
Worlds(tree) ==
    {World(tree), WorldWithOutputs(tree)} \cup
    (IF tree = TreeGuide
     THEN {WorldWithIndex(tree), WorldWithLockedFull(tree)} ELSE {})

-----------------------------------------------------------------------------
(* The command line (main, the option loop) *)

\* What args[i] is when i is past the end of the array.
Undefined == <<"<undefined>">>

Falsy(s) == s = Undefined \/ s = <<>>

Digits == {"0", "1", "2", "3", "4", "5", "6", "7", "8", "9"}

DigitValue(d) ==
    CASE d = "0" -> 0 [] d = "1" -> 1 [] d = "2" -> 2 [] d = "3" -> 3
      [] d = "4" -> 4 [] d = "5" -> 5 [] d = "6" -> 6 [] d = "7" -> 7
      [] d = "8" -> 8 [] d = "9" -> 9

RECURSIVE DigitPrefixLen(_)
DigitPrefixLen(s) ==
    IF s = <<>> \/ Head(s) \notin Digits THEN 0 ELSE 1 + DigitPrefixLen(Tail(s))

RECURSIVE DecimalValue(_)
DecimalValue(ds) ==
    IF ds = <<>> THEN 0
    ELSE 10 * DecimalValue(SubSeq(ds, 1, Len(ds) - 1)) + DigitValue(Last(ds))

RECURSIVE Pow10(_)
Pow10(n) == IF n = 0 THEN 1 ELSE 10 * Pow10(n - 1)

Infinity == [kind |-> "inf", num |-> 0, den |-> 1]
NaN      == [kind |-> "nan", num |-> 0, den |-> 1]

\* parseFloat on an unsigned decimal literal: the longest numeric prefix, NaN
\* when there is none.  The value is the fraction num/den.
ParseFloat(s) ==
    IF s = Undefined THEN NaN
    ELSE LET n    == DigitPrefixLen(s)
             rest == SubSeq(s, n + 1, Len(s))
             m    == IF rest # <<>> /\ Head(rest) = "."
                     THEN DigitPrefixLen(Tail(rest)) ELSE 0
         IN  IF n = 0 /\ m = 0 THEN NaN
             ELSE [kind |-> "num",
                   num  |-> DecimalValue(SubSeq(s, 1, n)) * Pow10(m)
                              + DecimalValue(SubSeq(s, n + 2, n + 1 + m)),
                   den  |-> Pow10(m)]

\* name.replace(/\.[^.]+$/, "." + format): the part from the last "." on is
\* replaced, when something follows that ".".
ReplaceExtension(name, format) ==
    IF ~Includes(name, ".") THEN name
    ELSE LET k == CHOOSE i \in 1..Len(name) :
                     name[i] = "." /\ \A j \in (i + 1)..Len(name) : name[j] # "."
         IN  IF k = Len(name) THEN name
             ELSE SubSeq(name, 1, k - 1) \o <<".">> \o format

\* s.replace(/^\./, "")
StripLeadingDot(s) == IF s # <<>> /\ Head(s) = "." THEN Tail(s) ELSE s

supportedOptions ==
    {<<"--local">>, <<"--llms">>, <<"--llms-full">>, <<"--format">>,
     <<"--skip">>, <<"--exclude">>, <<"--branch">>, <<"--output-dir">>,
     <<"--preview">>, <<"--analyze">>, <<"--summary">>, <<"--max-size">>,
     <<"--github">>, <<"--gitlab">>, <<"--backup">>, <<"--help">>}

\* The options helpOption prints: the three usage lines and the option list.
helpOption ==
    {<<"--local">>, <<"--github">>, <<"--gitlab">>, <<"--llms">>,
     <<"--llms-full">>, <<"--format">>, <<"--branch">>, <<"--output-dir">>,
     <<"--skip">>, <<"--exclude">>, <<"--max-size">>, <<"--summary">>,
     <<"--analyze">>, <<"--preview">>, <<"--interactive">>, <<"--backup">>}

\* The configuration before any option is read.  exit is the code the option
\* loop ended the process with, -1 when it did not, and error says why it
\* did: an invalid option, a TypeError, no source.
DefaultConfig ==
    [localDir     |-> Undefined,
     llmsFile     |-> <<"llms", ".", "t", "x", "t">>,
     llmsFullFile |-> <<"llms-", "full", ".", "t", "x", "t">>,
     format       |-> <<"t", "x", "t">>,
     skip         |-> <<>>,
     exclude      |-> <<>>,
     branch       |-> DEFAULT_BRANCH,
     outputDir    |-> <<".">>,
     githubUrl    |-> Undefined,
     gitlabUrl    |-> Undefined,
     preview      |-> FALSE,
     analyze      |-> FALSE,
     summary      |-> FALSE,
     maxSize      |-> Infinity,
     backup       |-> FALSE,
     exit         |-> -1,
     error        |-> "none"]

At(args, i) == IF i <= Len(args) THEN args[i] ELSE Undefined

WithTxt(name) == IF Includes(name, ".") THEN name ELSE name \o <<".", "t", "x", "t">>

RECURSIVE ParseFrom(_, _, _)
\* The loop over args from index i on.  A method called on a missing value
\* (undefined.includes, undefined.replace, undefined.split) is an uncaught
\* TypeError, which ends the process with code 1.
ParseFrom(args, i, c) ==
    IF i > Len(args) THEN c
    ELSE LET arg == args[i]
             v   == At(args, i + 1)
         IN
         IF arg \notin supportedOptions THEN [c EXCEPT !.exit = 1, !.error = "invalid"]
         ELSE IF arg = <<"--help">> THEN [c EXCEPT !.exit = 0]
         ELSE IF arg = <<"--local">> THEN
             ParseFrom(args, i + 2, [c EXCEPT !.localDir = v])
         ELSE IF arg = <<"--llms">> THEN
             IF v = Undefined THEN [c EXCEPT !.exit = 1, !.error = "TypeError"]
             ELSE ParseFrom(args, i + 2, [c EXCEPT !.llmsFile = WithTxt(v)])
         ELSE IF arg = <<"--llms-full">> THEN
             IF v = Undefined THEN [c EXCEPT !.exit = 1, !.error = "TypeError"]
             ELSE ParseFrom(args, i + 2, [c EXCEPT !.llmsFullFile = WithTxt(v)])
         ELSE IF arg = <<"--format">> THEN
             IF v = Undefined THEN [c EXCEPT !.exit = 1, !.error = "TypeError"]
             ELSE ParseFrom(args, i + 2,
                    [c EXCEPT !.format = StripLeadingDot(v),
                              !.llmsFile = ReplaceExtension(@, StripLeadingDot(v)),
                              !.llmsFullFile = ReplaceExtension(@, StripLeadingDot(v))])
         ELSE IF arg = <<"--skip">> THEN
             IF v = Undefined THEN [c EXCEPT !.exit = 1, !.error = "TypeError"]
             ELSE ParseFrom(args, i + 2, [c EXCEPT !.skip = @ \o Split(v, ",")])
         ELSE IF arg = <<"--exclude">> THEN
             IF v = Undefined THEN [c EXCEPT !.exit = 1, !.error = "TypeError"]
             ELSE ParseFrom(args, i + 2, [c EXCEPT !.exclude = @ \o Split(v, ",")])
         ELSE IF arg = <<"--branch">> THEN
             ParseFrom(args, i + 2, [c EXCEPT !.branch = v])
         ELSE IF arg = <<"--output-dir">> THEN
             ParseFrom(args, i + 2, [c EXCEPT !.outputDir = v])
         ELSE IF arg = <<"--preview">> THEN
             ParseFrom(args, i + 1, [c EXCEPT !.preview = TRUE])
         ELSE IF arg = <<"--analyze">> THEN
             ParseFrom(args, i + 1, [c EXCEPT !.analyze = TRUE])
         ELSE IF arg = <<"--summary">> THEN
             ParseFrom(args, i + 1, [c EXCEPT !.summary = TRUE])
         ELSE IF arg = <<"--max-size">> THEN
             ParseFrom(args, i + 2, [c EXCEPT !.maxSize = ParseFloat(v)])
         ELSE IF arg = <<"--github">> THEN
             ParseFrom(args, i + 2, [c EXCEPT !.githubUrl = v])
         ELSE IF arg = <<"--gitlab">> THEN
             ParseFrom(args, i + 2, [c EXCEPT !.gitlabUrl = v])
         ELSE \* --backup
             ParseFrom(args, i + 1, [c EXCEPT !.backup = TRUE])

\* The option loop and the check that a source was given.
\* The option loop reporting an invalid option without ending the process.
ParseArgs_InvalidIgnored(args) ==
    LET c == ParseFrom(args, 1, DefaultConfig)
    IN  IF c.error = "invalid" THEN [c EXCEPT !.exit = -1, !.error = "none"]
        ELSE c

ParseArgs(args) ==
    LET c == ParseFrom(args, 1, DefaultConfig)
    IN  IF c.exit # -1 THEN c
        ELSE IF Falsy(c.localDir) /\ Falsy(c.githubUrl) /\ Falsy(c.gitlabUrl)
             THEN [c EXCEPT !.exit = 1, !.error = "source"]
             ELSE c

\* parseURL(url, baseUrl): the url without baseUrl, split on "/": owner, repo,
\* an ignored piece, the branch (main when absent) and the path.
parseURL(url, baseUrl) ==
    LET rest  == ReplaceFirst(url, baseUrl, <<>>)
        parts == Split(rest, "/")
    IN  [owner  |-> At(parts, 1),
         repo   |-> At(parts, 2),
         branch |-> IF Len(parts) >= 4 THEN parts[4] ELSE DEFAULT_BRANCH,
         path   |-> JoinWith(SubSeq(parts, 5, Len(parts)), <<"/">>)]

-----------------------------------------------------------------------------
(* The walker (getDirectory) *)

InSeq(xs, x) == \E i \in 1..Len(xs) : xs[i] = x

\* Mutant: the test for a leading "." is left out.
skipDirectory_NoHidden(dirName, skip) ==
    \/ InSeq(skip, dirName)
    \/ dirName \in IGNORE_DIRECTORIES

skipDirectory(dirName, skip) ==
    \/ InSeq(skip, dirName)
    \/ StartsWith(dirName, <<".">>)
    \/ dirName \in IGNORE_DIRECTORIES

\* Mutant: a file whose name begins like an output of the program is exempt.
NameMatches_ExemptsOutputs(name, exclude) ==
    /\ \E ext \in SUPPORTED_EXTENSIONS : EndsWith(name, ext)
    /\ ~\E i \in 1..Len(exclude) : EndsWith(name, exclude[i])
    /\ name[1] \notin {"llms", "llms-"}

\* Mutant: an exclude entry is taken as an extension, with its dot.
NameMatches_ExcludeExtension(name, exclude) ==
    /\ \E ext \in SUPPORTED_EXTENSIONS : EndsWith(name, ext)
    /\ ~\E i \in 1..Len(exclude) : EndsWith(name, <<".">> \o exclude[i])

\* Mutant: .rst is missing from the recognized extensions.
NameMatches_NoRst(name, exclude) ==
    /\ \E ext \in SUPPORTED_EXTENSIONS \ {<<".", "r", "s", "t">>} : EndsWith(name, ext)
    /\ ~\E i \in 1..Len(exclude) : EndsWith(name, exclude[i])

\* SUPPORTED_EXTENSIONS.some(endsWith) && !exclude.some(endsWith)
NameMatches(name, exclude) ==
    /\ \E ext \in SUPPORTED_EXTENSIONS : EndsWith(name, ext)
    /\ ~\E i \in 1..Len(exclude) : EndsWith(name, exclude[i])

\* Mutant: < in place of <=.
SizeAllowed_Strict(size, maxSize) ==
    CASE maxSize.kind = "inf" -> TRUE
      [] maxSize.kind = "nan" -> FALSE
      [] OTHER -> size * maxSize.den < maxSize.num * BytesPerMB

\* size <= maxSize * 1024 * 1024, maxSize the fraction num/den; a comparison
\* with NaN is false.
SizeAllowed(size, maxSize) ==
    CASE maxSize.kind = "inf" -> TRUE
      [] maxSize.kind = "nan" -> FALSE
      [] OTHER -> size * maxSize.den <= maxSize.num * BytesPerMB

\* Deno.stat(path).size; a directory reports the size of its own block.
StatSize(f, p) ==
    IF f[Resolve(f, p)].kind = "dir" THEN 4096 ELSE f[Resolve(f, p)].size

-----------------------------------------------------------------------------
(* Inputs: command lines *)

Opt(name) == <<name>>

Sources ==
    {<<Opt("--local"), <<"docs">>>>,
     <<Opt("--local"), <<".">>>>,
     <<Opt("--local"), <<"docs", "/", "sub", "/", "build">>>>,
     <<Opt("--github"), <<"owner", "/", "repo">>>>,
     <<Opt("--github"), <<"https://github.com/", "owner", "/", "repo", "/",
                          "tree", "/", "dev", "/", "img">>>>}

OptionLists ==
    {<<>>,
     <<Opt("--skip"), <<"skip">>>>,
     <<Opt("--skip"), <<"docs", ",", "a", ".", "m", "d">>>>,
     <<Opt("--exclude"), <<"t", "x", "t">>>>,
     <<Opt("--exclude"), <<"r", "s", "t", ",", "t", "x", "t">>, Opt("--skip"), <<"skip">>>>,
     <<Opt("--exclude"), <<"t">>>>,
     <<Opt("--exclude"), <<"t", "x", "t", ",">>>>,
     <<Opt("--max-size"), <<"1">>>>,
     <<Opt("--max-size"), <<"2">>>>,
     <<Opt("--max-size"), <<"0", ".", "5">>>>,
     <<Opt("--max-size"), <<"all">>>>,
     <<Opt("--preview")>>,
     <<Opt("--analyze")>>,
     <<Opt("--summary")>>,
     <<Opt("--backup")>>,
     <<Opt("--preview"), Opt("--analyze")>>,
     <<Opt("--output-dir"), <<"out">>>>,
     <<Opt("--output-dir"), <<"docs">>>>,
     <<Opt("--output-dir"), <<"docs", "/", "sub", "/", "build">>>>,
     <<Opt("--verbose")>>,
     <<Opt("--interactive")>>,
     <<Opt("--verbose"), Opt("--backup")>>,
     <<Opt("--skip"), Opt("--verbose")>>,
     <<Opt("--branch"), <<"next">>>>,
     <<Opt("--llms"), <<"index">>, Opt("--llms-full"), <<"all">>, Opt("--format"), <<"m", "d">>>>,
     <<Opt("--format"), <<"m", "d">>, Opt("--llms"), <<"index">>, Opt("--llms-full"), <<"all">>>>,
     <<Opt("--help")>>,
     <<Opt("--skip")>>}

ArgLists == {src \o opts : src \in Sources, opts \in OptionLists}

\* What git writes to its standard error when it fails.
GitStderr == <<"fatal: ", "repository", " ", "not found">>

\* What the operator types at a prompt; Undefined is no input (prompt
\* returns null).
Answers == {<<"y">>, <<"Y">>, <<"n">>, Undefined}

\* userInput?.toLowerCase()
ToLowerCase(s) == [i \in 1..Len(s) |-> IF s[i] = "Y" THEN "y" ELSE s[i]]

\* The number of times the program is run, one run after the other, on the
\* same command line.
MaxRuns == 2

-----------------------------------------------------------------------------
(* State *)

VARIABLES
    args,          \* Deno.args
    tree,          \* the source tree: docs in the working directory, and the
                   \* content of the remote repository
    fs,            \* the file system
    fs0,           \* the file system when the current run began
    run,           \* the number of the current run
    prev,          \* exit code and effects of the previous run
    pc,            \* where main is
    config,        \* the configuration record
    dirPath,       \* main's dirPath
    stack,         \* the active calls of processDirectory: path and the
                   \* index of the next entry of its listing
    files,         \* getDirectory's files
    fullPaths,     \* getDirectory's fullPaths
    pending,       \* the reads of Promise.all that have not completed
    fileContents,  \* the results of those reads, by position
    effects,       \* the calls this run has made on the outside world, each
                   \* with the path (or url) it was made on
    stdout,        \* what this run has printed
    exitCode,      \* the exit code, -1 while the process runs
    iFile,         \* index.ts: the index i of the loop over the prompts
    confirmFiles,  \* index.ts: the relative paths confirmed so far
    confirmFullPaths  \* index.ts: their full paths

vars ==
    <<args, tree, fs, fs0, run, prev, pc, config, dirPath, stack, files,
      fullPaths, pending, fileContents, effects, stdout, exitCode,
      iFile, confirmFiles, confirmFullPaths>>

Init ==
    /\ args \in ArgLists
    /\ tree \in Trees
    /\ fs \in Worlds(tree)
    /\ fs0 = fs
    /\ run = 1
    /\ prev = [exitCode |-> -1, effects |-> {}]
    /\ pc = "parse"
    /\ config = DefaultConfig
    /\ dirPath = Undefined
    /\ stack = <<>>
    /\ files = <<>>
    /\ fullPaths = <<>>
    /\ pending = {}
    /\ fileContents = <<>>
    /\ effects = {}
    /\ stdout = <<>>
    /\ exitCode = -1
    /\ iFile = 0
    /\ confirmFiles = <<>>
    /\ confirmFullPaths = <<>>

Out(kind, data) == [kind |-> kind, data |-> data]

\* Deno.exit(code), or the end of main.
Exit(code) ==
    /\ pc' = "done"
    /\ exitCode' = code

\* The catch block of main: the error is printed and the process exits 1.
Catch(message) ==
    /\ stdout' = Append(stdout, Out("error", message))
    /\ Exit(1)

Effect(op, path) == [op |-> op, path |-> path]

Did(op) == {e.path : e \in {x \in effects : x.op = op}}

\* The directories Deno.readDir has been called on in this run.
listed == Did("readDir")

IsRemote(c) == ~Falsy(c.githubUrl) \/ ~Falsy(c.gitlabUrl)

\* Deno.makeTempDir(): a fresh directory under the system's temporary one.
TempDir(r) == <<"/tmp", "/", "clone", ToString(r)>>

llmsFilePath(c) == Join(c.outputDir, c.llmsFile)

llmsFullFilePath(c) == Join(c.outputDir, c.llmsFullFile)

Bak(p) == p \o <<".", "bak">>

-----------------------------------------------------------------------------
(* main, up to the walk *)

\* The option loop and the missing-source check.
Parse ==
    /\ pc = "parse"
    /\ config' = ParseArgs(args)
    /\ IF config'.exit # -1
       THEN /\ Exit(config'.exit)
            /\ stdout' = Append(stdout,
                   Out(IF config'.exit = 0 THEN "help" ELSE "usage", <<>>))
       ELSE /\ pc' = "source"
            /\ UNCHANGED <<exitCode, stdout>>
    /\ UNCHANGED <<iFile, confirmFiles, confirmFullPaths, args, tree, fs, fs0, run, prev, dirPath, stack, files,
                   fullPaths, pending, fileContents, effects>>

\* let dirPath = config.localDir, with no remote source given.
Locate ==
    /\ pc = "source"
    /\ ~IsRemote(config)
    /\ dirPath' = config.localDir
    /\ pc' = "getDirectory"
    /\ UNCHANGED <<iFile, confirmFiles, confirmFullPaths, args, tree, fs, fs0, run, prev, config, stack, files,
                   fullPaths, pending, fileContents, effects, stdout, exitCode>>

\* cloneRepository for --github, else --gitlab: a temporary directory is made
\* and git clones the branch into it; git succeeds or exits non-zero.
\* cloneRepository without the test of git's exit status.
cloneRepository_Unchecked(success, stderr, temporaryDirectory) ==
    [threw |-> FALSE, message |-> <<>>, value |-> temporaryDirectory]

\* cloneRepository(url, branch) once git has run: success and stderr are
\* what command.output() gave.  It throws when git failed and returns the
\* temporary directory otherwise.
cloneRepository(success, stderr, temporaryDirectory) ==
    IF ~success
    THEN [threw   |-> TRUE,
          message |-> <<"Error cloning a Git repository: ">> \o stderr,
          value   |-> Undefined]
    ELSE [threw |-> FALSE, message |-> <<>>, value |-> temporaryDirectory]

Clone ==
    /\ pc = "source"
    /\ IsRemote(config)
    /\ LET gh   == ~Falsy(config.githubUrl)
           base == IF gh THEN <<"https://github.com/">> ELSE <<"https://gitlab.com/">>
           u    == parseURL(IF gh THEN config.githubUrl ELSE config.gitlabUrl, base)
           url  == base \o u.owner \o <<"/">> \o u.repo \o <<".git">>
           br   == IF Falsy(u.branch) THEN config.branch ELSE u.branch
           tmp  == TempDir(run)
           made == (tmp :> DirNode(<<>>)) @@
                   [fs EXCEPT ![<<"/tmp">>].entries = Append(@, Basename(tmp))]
       IN  \E success \in BOOLEAN :
             LET r == cloneRepository(success, GitStderr, tmp)
             IN  /\ effects' = effects \cup
                        {Effect("makeTempDir", tmp),
                         Effect("clone", url \o <<"#">> \o br)} \cup
                        (IF success THEN {} ELSE {Effect("gitFailed", GitStderr)})
                 /\ fs' = IF success THEN Mount(tree, tmp) @@ made ELSE made
                 /\ IF r.threw
                    THEN /\ dirPath' = dirPath
                         /\ Catch(r.message)
                    ELSE /\ dirPath' = IF Falsy(u.path) THEN r.value
                                       ELSE Join(r.value, u.path)
                         /\ pc' = "getDirectory"
                         /\ UNCHANGED <<stdout, exitCode>>
    /\ UNCHANGED <<iFile, confirmFiles, confirmFullPaths, args, tree, fs0, run, prev, config, stack, files, fullPaths,
                   pending, fileContents>>

\* Mutant: the test for --analyze is missing.
AfterPreview_NoAnalyze(c) ==
    IF c.summary THEN "summary" ELSE "writeFiles"

\* Where main goes once the operator has agreed to continue, or was not asked.
AfterPreview(c) ==
    IF c.analyze THEN "analyze"
    ELSE IF c.summary THEN "summary"
    ELSE "writeFiles"

\* Where main goes when getDirectory has returned.
AfterWalk(c) == IF c.preview THEN "preview" ELSE AfterPreview(c)

\* Mutant: the skip predicates are applied to the root as well, and a root
\* they reject is not listed.
StartWalk_SkipsRoot ==
    /\ pc = "getDirectory"
    /\ LET r == Resolve(fs, Normalize(dirPath))
       IN  IF r # <<>> /\ fs[r].kind = "dir"
           THEN /\ IF skipDirectory(Basename(Normalize(dirPath)), config.skip)
                   THEN /\ pc' = AfterWalk(config)
                        /\ UNCHANGED <<stack, effects>>
                   ELSE /\ stack' = <<[path |-> dirPath, i |-> 1]>>
                        /\ effects' = effects \cup {Effect("readDir", Normalize(dirPath))}
                        /\ pc' = "processDirectory"
                /\ UNCHANGED <<stdout, exitCode>>
           ELSE /\ Catch(<<"NotFound">>)
                /\ UNCHANGED <<stack, effects>>
    /\ UNCHANGED <<iFile, confirmFiles, confirmFullPaths, args, tree, fs, fs0, run, prev, config, dirPath, files,
                   fullPaths, pending, fileContents>>

\* getDirectory calls processDirectory(dirPath): Deno.readDir on the root,
\* which throws when the root is no directory.
StartWalk ==
    /\ pc = "getDirectory"
    /\ LET root == Resolve(fs, Normalize(dirPath))
       IN  IF root # <<>> /\ fs[root].kind = "dir"
           THEN /\ stack' = <<[path |-> dirPath, i |-> 1]>>
                /\ effects' = effects \cup {Effect("readDir", Normalize(dirPath))}
                /\ pc' = "processDirectory"
                /\ UNCHANGED <<stdout, exitCode>>
           ELSE /\ Catch(<<"NotFound">>)
                /\ UNCHANGED <<stack, effects>>
    /\ UNCHANGED <<iFile, confirmFiles, confirmFullPaths, args, tree, fs, fs0, run, prev, config, dirPath, files,
                   fullPaths, pending, fileContents>>

\* One turn of the for-await loop of the innermost processDirectory call: the
\* next entry is recursed into, matched or passed over; after the last entry
\* the call returns, and getDirectory returns with the outermost call.
WalkStep ==
    /\ pc = "processDirectory"
    /\ LET top     == stack[Len(stack)]
           entries == fs[Resolve(fs, Normalize(top.path))].entries
           rest    == SubSeq(stack, 1, Len(stack) - 1)
       IN  IF top.i > Len(entries)
           THEN /\ stack' = rest
                /\ pc' = IF rest = <<>> THEN AfterWalk(config) ELSE pc
                /\ UNCHANGED <<files, fullPaths, effects, stdout, exitCode>>
           ELSE LET name      == entries[top.i]
                    entryPath == Join(top.path, name)
                    advanced  == Append(rest, [top EXCEPT !.i = @ + 1])
                IN  IF fs[entryPath].kind = "dir"
                    THEN /\ IF skipDirectory(name, config.skip)
                            THEN /\ stack' = advanced
                                 /\ UNCHANGED effects
                            ELSE /\ stack' = Append(advanced, [path |-> entryPath, i |-> 1])
                                 /\ effects' = effects \cup {Effect("readDir", entryPath)}
                         /\ UNCHANGED <<files, fullPaths, pc, stdout, exitCode>>
                    ELSE IF NameMatches(name, config.exclude)
                    THEN IF Resolve(fs, entryPath) = <<>>
                         THEN /\ Catch(<<"NotFound">>)
                              /\ UNCHANGED <<stack, files, fullPaths, effects>>
                         ELSE /\ IF SizeAllowed(StatSize(fs, entryPath), config.maxSize)
                                 THEN /\ files' = Append(files, Relative(dirPath, entryPath))
                                      /\ fullPaths' = Append(fullPaths, entryPath)
                                 ELSE UNCHANGED <<files, fullPaths>>
                              /\ stack' = advanced
                              /\ UNCHANGED <<pc, effects, stdout, exitCode>>
                    ELSE /\ stack' = advanced
                         /\ UNCHANGED <<files, fullPaths, pc, effects, stdout, exitCode>>
    /\ UNCHANGED <<iFile, confirmFiles, confirmFullPaths, args, tree, fs, fs0, run, prev, config, dirPath, pending,
                   fileContents>>

-----------------------------------------------------------------------------
(* Interaction modes *)

\* Whether Deno.readTextFile(path) throws: nothing there, not a file, or no
\* permission.
Unreadable(f, p) ==
    \/ Resolve(f, p) = <<>>
    \/ f[Resolve(f, p)].kind # "file"
    \/ ~f[Resolve(f, p)].readable

ReadTextFile(f, p) == f[Resolve(f, p)].content

IsSpace(a) == a \in {" ", "\n", "\t"}

\* content.split(/\s+/).length: one more than the number of maximal runs of
\* white space.
SplitWordsLength(content) ==
    1 + Cardinality({i \in 1..Len(content) :
                        /\ IsSpace(content[i])
                        /\ (i = 1 \/ ~IsSpace(content[i - 1]))})

\* fullPath.substring(0, fullPath.lastIndexOf("/"))
FolderOf(p) ==
    LET at == {i \in 1..Len(p) : p[i] = "/"}
    IN  IF at = {} THEN <<>>
        ELSE SubSeq(p, 1, (CHOOSE i \in at : \A j \in at : j <= i) - 1)

RECURSIVE TotalWords(_, _)
TotalWords(f, fp) ==
    IF fp = <<>> THEN 0
    ELSE SplitWordsLength(ReadTextFile(f, Head(fp))) + TotalWords(f, Tail(fp))

RECURSIVE TotalSize(_, _)
TotalSize(f, fp) ==
    IF fp = <<>> THEN 0 ELSE StatSize(f, Head(fp)) + TotalSize(f, Tail(fp))

\* The statistics analyzeOption prints.
analyzeOption(f, fl, fp) ==
    [folders    |-> Cardinality({FolderOf(fp[i]) : i \in 1..Len(fp)}),
     fileCount  |-> Len(fl),
     totalWords |-> TotalWords(f, fp),
     totalSize  |-> TotalSize(f, fp)]

\* previewOption, then the prompt: anything but y or Y ends the run.
Preview ==
    /\ pc = "preview"
    /\ \E userInput \in Answers :
         /\ stdout' = stdout \o <<Out("preview", files), Out("prompt", userInput)>>
         /\ IF userInput # Undefined /\ ToLowerCase(userInput) = <<"y">>
            THEN /\ pc' = AfterPreview(config)
                 /\ UNCHANGED exitCode
            ELSE Exit(0)
    /\ UNCHANGED <<iFile, confirmFiles, confirmFullPaths, args, tree, fs, fs0, run, prev, config, dirPath, stack,
                   files, fullPaths, pending, fileContents, effects>>

\* analyzeOption reads the matched files one after the other, prints the
\* statistics, and main exits with code 0.
Analyze ==
    /\ pc = "analyze"
    /\ IF \E i \in 1..Len(fullPaths) : Unreadable(fs, fullPaths[i])
       THEN Catch(<<"read">>)
       ELSE /\ stdout' = Append(stdout,
                   Out("analysis", analyzeOption(fs, files, fullPaths)))
            /\ Exit(0)
    /\ UNCHANGED <<iFile, confirmFiles, confirmFullPaths, args, tree, fs, fs0, run, prev, config, dirPath, stack,
                   files, fullPaths, pending, fileContents, effects>>

\* The summary is printed and main exits with code 0.
Summary ==
    /\ pc = "summary"
    /\ stdout' = Append(stdout, Out("summary", files))
    /\ Exit(0)
    /\ UNCHANGED <<iFile, confirmFiles, confirmFullPaths, args, tree, fs, fs0, run, prev, config, dirPath, stack,
                   files, fullPaths, pending, fileContents, effects>>

-----------------------------------------------------------------------------
(* The output writer (writeFiles) *)

RECURSIVE RemoveAll(_, _)
\* s.replace(/(a|b)/g, ""): every occurrence of a pattern, left to right.
RemoveAll(s, subs) ==
    IF s = <<>> THEN <<>>
    ELSE IF \E sub \in subs : StartsWith(s, sub)
    THEN LET sub == CHOOSE x \in subs : StartsWith(s, x)
         IN  RemoveAll(SubSeq(s, Len(sub) + 1, Len(s)), subs)
    ELSE <<Head(s)>> \o RemoveAll(Tail(s), subs)

repositoryName(c) ==
    RemoveAll(Basename(llmsFilePath(c)), {<<".", "t", "x", "t">>, <<"llms-">>})

heading(c) == <<"#", " ">> \o repositoryName(c) \o <<"\n", "\n">>

\* Mutant: the link target is the base name too.
FileLink_BasenameTarget(file) ==
    <<"-", " ", "[">> \o Basename(file) \o <<"]", "(">> \o Basename(file) \o <<")">>

\* `- [${basename(file)}](${file})`
FileLink(file) ==
    <<"-", " ", "[">> \o Basename(file) \o <<"]", "(">> \o file \o <<")">>

\* Mutant: the links are joined last file first.
fileLinks_Reversed(fl) ==
    JoinWith([i \in 1..Len(fl) |-> FileLink(fl[Len(fl) + 1 - i])], <<"\n">>)

fileLinks(fl) == JoinWith([i \in 1..Len(fl) |-> FileLink(fl[i])], <<"\n">>)

\* The slot of a read that has not completed.
Unsettled == <<"<pending>">>

\* Mutant: each result is put in the first free position, so the results are
\* in the order the reads complete.
Settle_CompletionOrder(results, i, content) ==
    [results EXCEPT ![CHOOSE k \in 1..Len(results) :
                         /\ results[k] = Unsettled
                         /\ \A j \in 1..(k - 1) : results[j] # Unsettled] = content]

\* Promise.all puts each result at the position of its promise.
Settle(results, i, content) == [results EXCEPT ![i] = content]

\* writeFiles is called.
CallWriteFiles ==
    /\ pc = "writeFiles"
    /\ effects' = effects \cup {Effect("writeFiles", <<>>)}
    /\ pc' = IF config.backup THEN "backupLlms" ELSE "writeLlms"
    /\ UNCHANGED <<iFile, confirmFiles, confirmFullPaths, args, tree, fs, fs0, run, prev, config, dirPath, stack,
                   files, fullPaths, pending, fileContents, stdout, exitCode>>

\* One try block of the backup with a catch that rethrows nothing.
Backup_SwallowsAll(p, next) ==
    IF CanCopy(fs, p, Bak(p))
    THEN /\ fs' = CopyFile(fs, p, Bak(p))
         /\ effects' = effects \cup {Effect("copyFile", Bak(p))}
         /\ stdout' = Append(stdout, Out("backup", Bak(p)))
         /\ pc' = next
         /\ UNCHANGED exitCode
    ELSE /\ pc' = next
         /\ UNCHANGED <<fs, effects, stdout, exitCode>>

\* One try block of the backup: Deno.stat, then Deno.copyFile to the .bak
\* sibling; NotFound from either is swallowed, any other error is rethrown.
Backup(p, next) ==
    IF Resolve(fs, p) = <<>>
    THEN /\ pc' = next
         /\ UNCHANGED <<fs, effects, stdout, exitCode>>
    ELSE IF CanCopy(fs, p, Bak(p))
    THEN /\ fs' = CopyFile(fs, p, Bak(p))
         /\ effects' = effects \cup {Effect("copyFile", Bak(p))}
         /\ stdout' = Append(stdout, Out("backup", Bak(p)))
         /\ pc' = next
         /\ UNCHANGED exitCode
    ELSE /\ Catch(<<"copy">>)
         /\ UNCHANGED <<fs, effects>>

BackupLlms ==
    /\ pc = "backupLlms"
    /\ Backup(llmsFilePath(config), "backupFull")
    /\ UNCHANGED <<iFile, confirmFiles, confirmFullPaths, args, tree, fs0, run, prev, config, dirPath, stack, files,
                   fullPaths, pending, fileContents>>

\* The second try block copying the link index once more.
BackupFull_CopiesLlms ==
    /\ pc = "backupFull"
    /\ Backup(llmsFilePath(config), "writeLlms")
    /\ UNCHANGED <<iFile, confirmFiles, confirmFullPaths, args, tree, fs0, run, prev, config, dirPath, stack, files,
                   fullPaths, pending, fileContents>>

BackupFull ==
    /\ pc = "backupFull"
    /\ Backup(llmsFullFilePath(config), "writeLlms")
    /\ UNCHANGED <<iFile, confirmFiles, confirmFullPaths, args, tree, fs0, run, prev, config, dirPath, stack, files,
                   fullPaths, pending, fileContents>>

\* The link index is written, then the reads of all matched files are issued.
WriteLlms ==
    /\ pc = "writeLlms"
    /\ IF CanWrite(fs, llmsFilePath(config))
       THEN /\ fs' = WriteFile(fs, llmsFilePath(config),
                               heading(config) \o fileLinks(files))
            /\ effects' = effects \cup {Effect("writeTextFile", llmsFilePath(config))}
            /\ pending' = 1..Len(fullPaths)
            /\ fileContents' = [i \in 1..Len(fullPaths) |-> Unsettled]
            /\ pc' = IF fullPaths = <<>> THEN "writeFull" ELSE "readFiles"
            /\ UNCHANGED <<stdout, exitCode>>
       ELSE /\ Catch(<<"write">>)
            /\ UNCHANGED <<fs, effects, pending, fileContents>>
    /\ UNCHANGED <<iFile, confirmFiles, confirmFullPaths, args, tree, fs0, run, prev, config, dirPath, stack, files,
                   fullPaths>>

\* One of the outstanding reads completes, in any order; the first one to
\* fail rejects Promise.all and the run ends in the catch block.
ReadFile ==
    /\ pc = "readFiles"
    /\ \E i \in pending :
         IF Unreadable(fs, fullPaths[i])
         THEN /\ Catch(<<"read">>)
              /\ UNCHANGED <<pending, fileContents>>
         ELSE /\ fileContents' = Settle(fileContents, i, ReadTextFile(fs, fullPaths[i]))
              /\ pending' = pending \ {i}
              /\ pc' = IF pending' = {} THEN "writeFull" ELSE pc
              /\ UNCHANGED <<stdout, exitCode>>
    /\ UNCHANGED <<iFile, confirmFiles, confirmFullPaths, args, tree, fs, fs0, run, prev, config, dirPath, stack,
                   files, fullPaths, effects>>

\* The full-content output is written from the results of the reads.
WriteFull ==
    /\ pc = "writeFull"
    /\ IF CanWrite(fs, llmsFullFilePath(config))
       THEN /\ fs' = WriteFile(fs, llmsFullFilePath(config),
                               JoinWith(fileContents, <<"\n", "\n">>))
            /\ effects' = effects \cup {Effect("writeTextFile", llmsFullFilePath(config))}
            /\ stdout' = Append(stdout, Out("written", <<>>))
            /\ pc' = "finish"
            /\ UNCHANGED exitCode
       ELSE /\ Catch(<<"write">>)
            /\ UNCHANGED <<fs, effects>>
    /\ UNCHANGED <<iFile, confirmFiles, confirmFullPaths, args, tree, fs0, run, prev, config, dirPath, stack, files,
                   fullPaths, pending, fileContents>>

\* After writeFiles: the clone of a remote source is removed, and main ends.
Finish ==
    /\ pc = "finish"
    /\ IF IsRemote(config) /\ ~Falsy(dirPath)
       THEN /\ fs' = RemoveTree(fs, Normalize(dirPath))
            /\ effects' = effects \cup {Effect("remove", Normalize(dirPath))}
       ELSE UNCHANGED <<fs, effects>>
    /\ Exit(0)
    /\ UNCHANGED <<iFile, confirmFiles, confirmFullPaths, args, tree, fs0, run, prev, config, dirPath, stack, files,
                   fullPaths, pending, fileContents, stdout>>

\* The program is run again, on the same command line.
Rerun ==
    /\ pc = "done"
    /\ run < MaxRuns
    /\ run' = run + 1
    /\ prev' = [exitCode |-> exitCode, effects |-> effects]
    /\ fs0' = fs
    /\ pc' = "parse"
    /\ config' = DefaultConfig
    /\ dirPath' = Undefined
    /\ stack' = <<>>
    /\ files' = <<>>
    /\ fullPaths' = <<>>
    /\ pending' = {}
    /\ fileContents' = <<>>
    /\ effects' = {}
    /\ stdout' = <<>>
    /\ exitCode' = -1
    /\ UNCHANGED <<iFile, confirmFiles, confirmFullPaths, args, tree, fs>>

Next ==
    \/ Parse
    \/ Locate
    \/ Clone
    \/ StartWalk
    \/ WalkStep
    \/ Preview
    \/ Analyze
    \/ Summary
    \/ CallWriteFiles
    \/ BackupLlms
    \/ BackupFull
    \/ WriteLlms
    \/ ReadFile
    \/ WriteFull
    \/ Finish
    \/ Rerun

Spec == Init /\ [][Next]_vars

-----------------------------------------------------------------------------
(* The variant src/index.ts: its command line *)

\* main's locals before any option is read; exit and error as above.
IndexConfig ==
    [localDir     |-> <<>>,
     llmsName     |-> <<"llms">>,
     llmsFullName |-> <<"llms-", "full">>,
     format       |-> <<"t", "x", "t">>,
     skip         |-> <<>>,
     exclude      |-> <<>>,
     githubUrl    |-> <<>>,
     gitlabUrl    |-> <<>>,
     branch       |-> <<"main">>,
     preview      |-> FALSE,
     interactive  |-> FALSE,
     summary      |-> FALSE,
     analyze      |-> FALSE,
     maxSize      |-> Infinity,
     outputDir    |-> <<".">>,
     verbose      |-> FALSE,
     exit         |-> -1,
     error        |-> "none"]

\* args[i].startsWith("--")
StartsWithDashes(arg) ==
    arg \in supportedOptions \cup helpOption \cup {<<"--verbose">>}

\* The index after the values that follow position i: the arguments up to
\* the next one that starts with "--".
RECURSIVE ValuesEnd(_, _)
ValuesEnd(a, i) ==
    IF i <= Len(a) /\ ~StartsWithDashes(a[i]) THEN ValuesEnd(a, i + 1)
    ELSE i

\* validateURL(url, /^(https:\/\/host\/|[^/]+\/[^/]+$)/)
validateURL(url, baseUrl) ==
    \/ StartsWith(url, baseUrl)
    \/ /\ Cardinality({k \in 1..Len(url) : url[k] = "/"}) = 1
       /\ url[1] # "/"
       /\ url[Len(url)] # "/"

\* The url a remote option stores: the value itself, or the value after the
\* base url, and nothing when the value is not valid.
RemoteUrl(current, v, baseUrl) ==
    IF ~validateURL(v, baseUrl) THEN current
    ELSE IF StartsWith(v, baseUrl) THEN v
    ELSE baseUrl \o v

RECURSIVE IndexParseFrom(_, _, _)
\* The loop over args from index i on; an argument that is no option is
\* passed over.  A method called on a missing value is a TypeError.
IndexParseFrom(a, i, c) ==
    IF i > Len(a) THEN c
    ELSE LET arg == a[i]
             v   == At(a, i + 1)
             end == ValuesEnd(a, i + 1)
         IN
         IF arg = <<"--local">> THEN
             IndexParseFrom(a, i + 2, [c EXCEPT !.localDir = v])
         ELSE IF arg = <<"--llms">> THEN
             IndexParseFrom(a, i + 2, [c EXCEPT !.llmsName = v])
         ELSE IF arg = <<"--llms-full">> THEN
             IndexParseFrom(a, i + 2, [c EXCEPT !.llmsFullName = v])
         ELSE IF arg = <<"--format">> THEN
             IF v = Undefined THEN [c EXCEPT !.exit = 1, !.error = "TypeError"]
             ELSE IndexParseFrom(a, i + 2, [c EXCEPT !.format = StripLeadingDot(v)])
         ELSE IF arg = <<"--skip">> THEN
             IndexParseFrom(a, end,
                 [c EXCEPT !.skip = @ \o SubSeq(a, i + 1, end - 1)])
         ELSE IF arg = <<"--exclude">> THEN
             IF c.exclude \o SubSeq(a, i + 1, end - 1) = <<>>
             THEN [c EXCEPT !.exit = 1, !.error = "exclude"]
             ELSE IndexParseFrom(a, end,
                      [c EXCEPT !.exclude = @ \o SubSeq(a, i + 1, end - 1)])
         ELSE IF arg = <<"--preview">> THEN
             IndexParseFrom(a, i + 1, [c EXCEPT !.preview = TRUE])
         ELSE IF arg = <<"--interactive">> THEN
             IndexParseFrom(a, i + 1, [c EXCEPT !.interactive = TRUE])
         ELSE IF arg = <<"--summary">> THEN
             IndexParseFrom(a, i + 1, [c EXCEPT !.summary = TRUE])
         ELSE IF arg = <<"--analyze">> THEN
             IndexParseFrom(a, i + 1, [c EXCEPT !.analyze = TRUE])
         ELSE IF arg = <<"--max-size">> THEN
             IndexParseFrom(a, i + 2, [c EXCEPT !.maxSize = ParseFloat(v)])
         ELSE IF arg = <<"--github">> THEN
             IF v = Undefined THEN [c EXCEPT !.exit = 1, !.error = "TypeError"]
             ELSE IndexParseFrom(a, i + 2,
                      [c EXCEPT !.githubUrl = RemoteUrl(@, v, <<"https://github.com/">>)])
         ELSE IF arg = <<"--gitlab">> THEN
             IF v = Undefined THEN [c EXCEPT !.exit = 1, !.error = "TypeError"]
             ELSE IndexParseFrom(a, i + 2,
                      [c EXCEPT !.gitlabUrl = RemoteUrl(@, v, <<"https://gitlab.com/">>)])
         ELSE IF arg = <<"--branch">> THEN
             IndexParseFrom(a, i + 2, [c EXCEPT !.branch = v])
         ELSE IF arg = <<"--output-dir">> THEN
             IndexParseFrom(a, i + 2, [c EXCEPT !.outputDir = v])
         ELSE IF arg = <<"--verbose">> THEN
             IndexParseFrom(a, i + 1, [c EXCEPT !.verbose = TRUE])
         ELSE IndexParseFrom(a, i + 1, c)

\* The test that --preview and --interactive stand alone.
Combined(c) ==
    /\ c.preview \/ c.interactive
    /\ \/ c.summary
       \/ c.analyze
       \/ c.maxSize # Infinity
       \/ Len(c.skip) > 0
       \/ c.llmsName # <<"llms">>
       \/ c.llmsFullName # <<"llms-", "full">>
       \/ c.format # <<"t", "x", "t">>
       \/ c.branch # <<"main">>
       \/ c.outputDir # <<".">>

\* main up to its try block: --help anywhere, the option loop, the check
\* that a source was given, the check that the modes stand alone.
IndexParseArgs(a) ==
    IF \E k \in 1..Len(a) : a[k] = <<"--help">>
    THEN [IndexConfig EXCEPT !.exit = 0]
    ELSE LET c == IndexParseFrom(a, 1, IndexConfig)
         IN  IF c.exit # -1 THEN c
             ELSE IF Falsy(c.localDir) /\ Falsy(c.githubUrl) /\ Falsy(c.gitlabUrl)
             THEN [c EXCEPT !.exit = 1, !.error = "source"]
             ELSE IF Combined(c)
             THEN [c EXCEPT !.exit = 1, !.error = "combined"]
             ELSE c

-----------------------------------------------------------------------------
(* The variant src/index.ts: a run *)

IndexTrees == {TreeGuide, TreeSkip, TreeUnreadable, TreeEmpty}

IndexSources ==
    {<<Opt("--local"), <<"docs">>>>,
     <<Opt("--github"), <<"owner", "/", "repo">>>>}

IndexOptionLists ==
    {<<>>,
     <<Opt("--interactive")>>,
     <<Opt("--preview")>>,
     <<Opt("--analyze")>>,
     <<Opt("--summary")>>,
     <<Opt("--interactive"), Opt("--summary")>>,
     <<Opt("--preview"), Opt("--analyze")>>,
     <<Opt("--skip"), <<"skip">>, Opt("--interactive")>>,
     <<Opt("--interactive"), Opt("--exclude"), <<"t", "x", "t">>>>,
     <<Opt("--preview"), Opt("--verbose")>>,
     <<Opt("--preview"), Opt("--interactive")>>,
     <<Opt("--interactive"), Opt("--branch"), <<"main">>>>,
     <<Opt("--interactive"), Opt("--branch"), <<"next">>>>,
     <<Opt("--preview"), Opt("--max-size"), <<"1">>>>,
     <<Opt("--interactive"), Opt("--output-dir"), <<"docs">>>>,
     <<Opt("--llms"), <<"index">>, Opt("--preview")>>,
     <<Opt("--interactive"), Opt("--llms-full"), <<"all">>>>,
     <<Opt("--interactive"), Opt("--format"), <<"m", "d">>>>,
     <<Opt("--exclude")>>,
     <<Opt("--help")>>}

IndexArgLists == {src \o opts : src \in IndexSources, opts \in IndexOptionLists}

IndexInit ==
    /\ args \in IndexArgLists
    /\ tree \in IndexTrees
    /\ fs \in {World(tree), WorldWithOutputs(tree)}
    /\ fs0 = fs
    /\ run = 1
    /\ prev = [exitCode |-> -1, effects |-> {}]
    /\ pc = "parse"
    /\ config = IndexConfig
    /\ dirPath = Undefined
    /\ stack = <<>>
    /\ files = <<>>
    /\ fullPaths = <<>>
    /\ pending = {}
    /\ fileContents = <<>>
    /\ effects = {}
    /\ stdout = <<>>
    /\ exitCode = -1
    /\ iFile = 0
    /\ confirmFiles = <<>>
    /\ confirmFullPaths = <<>>

\* What no step of this variant changes.
indexFixed == <<args, tree, fs0, run, prev, stack, pending, fileContents>>

IndexParse ==
    /\ pc = "parse"
    /\ config' = IndexParseArgs(args)
    /\ IF config'.exit # -1
       THEN /\ Exit(config'.exit)
            /\ stdout' = Append(stdout,
                   Out(IF config'.exit = 0 THEN "help" ELSE "usage", <<>>))
       ELSE /\ pc' = "source"
            /\ UNCHANGED <<exitCode, stdout>>
    /\ UNCHANGED <<indexFixed, fs, dirPath, files, fullPaths, effects, iFile,
                   confirmFiles, confirmFullPaths>>

\* dirPath = localDir
IndexLocate ==
    /\ pc = "source"
    /\ ~Falsy(config.localDir)
    /\ dirPath' = config.localDir
    /\ pc' = "getDirectory"
    /\ UNCHANGED <<indexFixed, fs, config, files, fullPaths, effects, stdout,
                   exitCode, iFile, confirmFiles, confirmFullPaths>>

\* parseURL, cloneRepository(url, branch || urlBranch), and the path of the
\* url joined to the clone.
IndexClone ==
    /\ pc = "source"
    /\ Falsy(config.localDir)
    /\ LET gh   == ~Falsy(config.githubUrl)
           base == IF gh THEN <<"https://github.com/">> ELSE <<"https://gitlab.com/">>
           u    == parseURL(IF gh THEN config.githubUrl ELSE config.gitlabUrl, base)
           url  == base \o u.owner \o <<"/">> \o u.repo \o <<".git">>
           br   == IF Falsy(config.branch) THEN u.branch ELSE config.branch
           tmp  == TempDir(run)
           made == (tmp :> DirNode(<<>>)) @@
                   [fs EXCEPT ![<<"/tmp">>].entries = Append(@, Basename(tmp))]
       IN  \E success \in BOOLEAN :
             /\ effects' = effects \cup
                    {Effect("makeTempDir", tmp),
                     Effect("clone", url \o <<"#">> \o br)} \cup
                    (IF success THEN {} ELSE {Effect("gitFailed", GitStderr)})
             /\ fs' = IF success THEN Mount(tree, tmp) @@ made ELSE made
             /\ IF success
                THEN /\ dirPath' = IF Falsy(u.path) THEN tmp ELSE Join(tmp, u.path)
                     /\ pc' = "getDirectory"
                     /\ UNCHANGED <<stdout, exitCode>>
                ELSE /\ dirPath' = dirPath
                     /\ Catch(<<"Git clone failed: ">> \o GitStderr)
    /\ UNCHANGED <<indexFixed, config, files, fullPaths, iFile, confirmFiles,
                   confirmFullPaths>>

\* processDirectory(currentPath) from entry k of its listing on, given what
\* the traversal has gathered so far: the two lists, the directories listed,
\* and whether Deno.stat has thrown.
RECURSIVE IndexProcessDirectory(_, _, _, _, _, _)
IndexProcessDirectory(f, basePath, c, currentPath, k, got) ==
    LET entries == f[Resolve(f, Normalize(currentPath))].entries
    IN  IF got.threw \/ k > Len(entries) THEN got
        ELSE LET name          == entries[k]
                 directoryPath == Join(currentPath, name)
             IN  IF f[directoryPath].kind = "dir"
                 THEN IF skipDirectory(name, c.skip)
                      THEN IndexProcessDirectory(f, basePath, c, currentPath, k + 1, got)
                      ELSE IndexProcessDirectory(f, basePath, c, currentPath, k + 1,
                               IndexProcessDirectory(f, basePath, c, directoryPath, 1,
                                   [got EXCEPT !.listed = @ \cup {directoryPath}]))
                 ELSE IF NameMatches(name, c.exclude)
                 THEN IF Resolve(f, directoryPath) = <<>>
                      THEN [got EXCEPT !.threw = TRUE]
                      ELSE IF SizeAllowed(StatSize(f, directoryPath), c.maxSize)
                      THEN IndexProcessDirectory(f, basePath, c, currentPath, k + 1,
                               [got EXCEPT
                                   !.files = Append(@, Relative(basePath, directoryPath)),
                                   !.fullPaths = Append(@, directoryPath)])
                      ELSE IndexProcessDirectory(f, basePath, c, currentPath, k + 1, got)
                 ELSE IndexProcessDirectory(f, basePath, c, currentPath, k + 1, got)

\* What main does next, after getDirectory, after --analyze is passed, and
\* after --preview is passed.
IndexAfterPreview(c) == IF c.interactive THEN "interactive" ELSE "writeFiles"

IndexAfterAnalyze(c) == IF c.preview THEN "preview" ELSE IndexAfterPreview(c)

IndexAfterWalk(c) == IF c.analyze THEN "analyze" ELSE IndexAfterAnalyze(c)

\* getDirectory(dirPath, dirPath, skip, exclude, maxSize, verbose)
IndexGetDirectory ==
    /\ pc = "getDirectory"
    /\ LET at == Resolve(fs, Normalize(dirPath))
       IN  IF at = <<>> \/ fs[at].kind # "dir"
           THEN /\ Catch(<<"NotFound">>)
                /\ UNCHANGED <<files, fullPaths, effects>>
           ELSE LET got == IndexProcessDirectory(fs, dirPath, config, dirPath, 1,
                               [files |-> <<>>, fullPaths |-> <<>>,
                                listed |-> {Normalize(dirPath)}, threw |-> FALSE])
                IN  /\ effects' = effects \cup {Effect("readDir", d) : d \in got.listed}
                    /\ IF got.threw
                       THEN /\ Catch(<<"NotFound">>)
                            /\ UNCHANGED <<files, fullPaths>>
                       ELSE /\ files' = got.files
                            /\ fullPaths' = got.fullPaths
                            /\ stdout' = IF config.verbose
                                         THEN Append(stdout, Out("verbose", got.files))
                                         ELSE stdout
                            /\ pc' = IndexAfterWalk(config)
                            /\ UNCHANGED exitCode
    /\ UNCHANGED <<indexFixed, fs, config, dirPath, iFile, confirmFiles,
                   confirmFullPaths>>

\* analyzeOption(files, fullPaths), then Deno.exit(0).
IndexAnalyze ==
    /\ pc = "analyze"
    /\ IF \E k \in 1..Len(fullPaths) : Unreadable(fs, fullPaths[k])
       THEN Catch(<<"read">>)
       ELSE /\ stdout' = Append(stdout,
                   Out("analysis", analyzeOption(fs, files, fullPaths)))
            /\ Exit(0)
    /\ UNCHANGED <<indexFixed, fs, config, dirPath, files, fullPaths, effects,
                   iFile, confirmFiles, confirmFullPaths>>

\* userInput?.toLowerCase() === "y" with only the lower-case answer taken.
Confirms_LowerCaseOnly(userInput) == userInput = <<"y">>

\* userInput?.toLowerCase() === "y"
Confirms(userInput) == userInput # Undefined /\ ToLowerCase(userInput) = <<"y">>

\* previewOption(files) and the prompt: anything but y or Y ends the run.
IndexPreview ==
    /\ pc = "preview"
    /\ \E userInput \in Answers :
         /\ stdout' = stdout \o <<Out("preview", files), Out("prompt", userInput)>>
         /\ IF Confirms(userInput)
            THEN /\ pc' = IndexAfterPreview(config)
                 /\ UNCHANGED exitCode
            ELSE Exit(0)
    /\ UNCHANGED <<indexFixed, fs, config, dirPath, files, fullPaths, effects,
                   iFile, confirmFiles, confirmFullPaths>>

\* One turn of the loop over the matched files: files[i] is prompted for
\* and, when confirmed, pushed with its full path; after the last file the
\* loop ends.
IndexPrompt ==
    /\ pc = "interactive"
    /\ IF iFile < Len(files)
       THEN \E userInput \in Answers :
              LET file     == files[iFile + 1]
                  fullPath == fullPaths[iFile + 1]
              IN  /\ stdout' = Append(stdout,
                         Out("confirm", [index  |-> iFile + 1,
                                         of     |-> Len(files),
                                         file   |-> file,
                                         answer |-> userInput]))
                  /\ IF Confirms(userInput)
                     THEN /\ confirmFiles' = Append(confirmFiles, file)
                          /\ confirmFullPaths' = Append(confirmFullPaths, fullPath)
                     ELSE UNCHANGED <<confirmFiles, confirmFullPaths>>
                  /\ iFile' = iFile + 1
                  /\ UNCHANGED pc
       ELSE /\ pc' = "writeFiles"
            /\ UNCHANGED <<stdout, iFile, confirmFiles, confirmFullPaths>>
    /\ UNCHANGED <<indexFixed, fs, config, dirPath, files, fullPaths, effects,
                   exitCode>>

IndexLlmsFilePath(c) == Join(c.outputDir, c.llmsName \o <<".">> \o c.format)

IndexLlmsFullFilePath(c) == Join(c.outputDir, c.llmsFullName \o <<".">> \o c.format)

\* writeFiles(llmsFile, llmsFullFile, files, fullPaths, outputDir), called
\* with the confirmed lists after the prompts and with the matched lists
\* otherwise: the link index is written, the files are read, the full
\* content is written.  The call is recorded with the relative paths.
IndexWriteFiles ==
    /\ pc = "writeFiles"
    /\ LET fl    == IF config.interactive THEN confirmFiles ELSE files
           fp    == IF config.interactive THEN confirmFullPaths ELSE fullPaths
           index == IndexLlmsFilePath(config)
           full  == IndexLlmsFullFilePath(config)
           links == WriteFile(fs, index, fileLinks(fl))
           texts == [k \in 1..Len(fp) |-> ReadTextFile(fs, fp[k])]
       IN  IF ~CanWrite(fs, index)
           THEN /\ Catch(<<"write">>)
                /\ effects' = effects \cup {Effect("writeFiles", JoinWith(fl, <<",">>))}
                /\ UNCHANGED fs
           ELSE IF (\E k \in 1..Len(fp) : Unreadable(fs, fp[k])) \/ ~CanWrite(links, full)
           THEN /\ Catch(<<"read">>)
                /\ fs' = links
                /\ effects' = effects \cup
                       {Effect("writeFiles", JoinWith(fl, <<",">>)),
                        Effect("writeTextFile", index)}
           ELSE /\ fs' = WriteFile(links, full, JoinWith(texts, <<"\n", "\n">>))
                /\ effects' = effects \cup
                       {Effect("writeFiles", JoinWith(fl, <<",">>)),
                        Effect("writeTextFile", index),
                        Effect("writeTextFile", full)}
                /\ stdout' = Append(stdout, Out("written", <<>>))
                /\ pc' = "finish"
                /\ UNCHANGED exitCode
    /\ UNCHANGED <<indexFixed, config, dirPath, files, fullPaths, iFile,
                   confirmFiles, confirmFullPaths>>

\* After writeFiles: the summary, the removal of the clone unless --preview
\* or --interactive was given, and the end of main.
IndexFinish ==
    /\ pc = "finish"
    /\ stdout' = IF config.summary THEN Append(stdout, Out("summary", files))
                 ELSE stdout
    /\ IF (~Falsy(config.githubUrl) \/ ~Falsy(config.gitlabUrl))
            /\ ~config.preview /\ ~config.interactive
       THEN /\ fs' = RemoveTree(fs, Normalize(dirPath))
            /\ effects' = effects \cup {Effect("remove", Normalize(dirPath))}
       ELSE UNCHANGED <<fs, effects>>
    /\ Exit(0)
    /\ UNCHANGED <<indexFixed, config, dirPath, files, fullPaths, iFile,
                   confirmFiles, confirmFullPaths>>

IndexNext ==
    \/ IndexParse
    \/ IndexLocate
    \/ IndexClone
    \/ IndexGetDirectory
    \/ IndexAnalyze
    \/ IndexPreview
    \/ IndexPrompt
    \/ IndexWriteFiles
    \/ IndexFinish

SpecIndex == IndexInit /\ [][IndexNext]_vars

-----------------------------------------------------------------------------
(* The variant src/docs2llms.ts: a remote run over the contents API.  The
   repository is tree; a file holds one byte for each item of its content. *)

\* The byte a hole in a file reads as.
NUL == "\\0"

\* file.write(data) through a writer whose position is at: the bytes at and
\* after the position are replaced, and a position past the end of the file
\* leaves a hole before the data.
WriteAt(content, at, data) ==
    LET hole   == [k \in 1..(at - Len(content)) |-> NUL]
        before == SubSeq(content \o hole, 1, at)
        after  == SubSeq(content, at + Len(data) + 1, Len(content))
    IN  before \o data \o after

\* Deno.open(path, {create: true, truncate: true, write: true})
OpenTruncate(f, p) == WriteFile(f, p, <<>>)

\* skipDirectory(dirName, skipFolders) of this variant.
ApiSkipDirectory(dirName, skipFolders) == InSeq(skipFolders, dirName)

\* fileExtensions.some((ext) => item.name.endsWith(ext))
ApiNameMatches(name) == \E ext \in SUPPORTED_EXTENSIONS : EndsWith(name, ext)

ApiTrees == {TreeGuide, TreeSkip, TreeUnreadable, TreeEmpty}

ApiSkipFolders == {<<>>, <<<<"skip">>>>, <<<<"img">>, <<"sub">>>>}

\* main's locals when it calls processDirectory for a repository URL.
ApiConfig(skipFolders) ==
    [owner        |-> <<"owner">>,
     repo         |-> <<"repo">>,
     branch       |-> <<"main">>,
     path         |-> <<".">>,
     llmsFullFile |-> <<"llms-", "full", ".", "t", "x", "t">>,
     llmsFile     |-> <<"llms", ".", "t", "x", "t">>,
     skipFolders  |-> skipFolders]

\* The command line that gives main these locals.
ApiArgs(skipFolders) ==
    <<<<"https://github.com/", "owner", "/", "repo">>>> \o
    (IF skipFolders = <<>> THEN <<>> ELSE <<<<"--skip">>>> \o skipFolders)

ApiInit ==
    /\ args \in {ApiArgs(s) : s \in ApiSkipFolders}
    /\ tree \in ApiTrees
    /\ fs \in {World(TreeEmpty), WorldWithOutputs(TreeEmpty)}
    /\ fs0 = fs
    /\ run = 1
    /\ prev = [exitCode |-> -1, effects |-> {}]
    /\ pc = "main"
    /\ config = ApiConfig(IF Len(args) = 1 THEN <<>> ELSE SubSeq(args, 3, Len(args)))
    /\ dirPath = Undefined
    /\ stack = <<>>
    /\ files = <<>>
    /\ fullPaths = <<>>
    /\ pending = {}
    /\ fileContents = <<>>
    /\ effects = {}
    /\ stdout = <<>>
    /\ exitCode = -1
    /\ iFile = 0
    /\ confirmFiles = <<>>
    /\ confirmFullPaths = <<>>

\* What no step of this variant changes.
apiFixed ==
    <<args, tree, fs0, run, prev, config, dirPath, files, fullPaths, pending,
      fileContents, iFile, confirmFiles, confirmFullPaths>>

\* A call of processDirectory for path that has not opened its writers yet.
ApiCalled(path) == [path |-> path, i |-> 0, fullAt |-> 0, llmsAt |-> 0]

\* main calls processDirectory for the path of the URL.
ApiMain ==
    /\ pc = "main"
    /\ stack' = <<ApiCalled(config.path)>>
    /\ pc' = "processDirectory"
    /\ UNCHANGED <<apiFixed, fs, effects, stdout, exitCode>>

\* An error thrown in processDirectory: every active call closes its
\* writers on the way out, and main's catch exits with code 1.
ApiThrow(message) ==
    /\ stack' = <<>>
    /\ Catch(message)

\* The start of a call of processDirectory: both outputs are opened with
\* truncate, the heading is written to the link index, and the listing of
\* path is fetched.
ApiOpen ==
    /\ pc = "processDirectory"
    /\ stack[Len(stack)].i = 0
    /\ LET top     == stack[Len(stack)]
           opened  == OpenTruncate(OpenTruncate(fs, config.llmsFullFile), config.llmsFile)
           title == <<"#", " ">> \o config.repo \o <<"\n", "\n">>
       IN  /\ fs' = [opened EXCEPT ![config.llmsFile].content = WriteAt(@, 0, title)]
           /\ effects' = effects \cup
                  {Effect("open", config.llmsFullFile \o <<"@">> \o top.path),
                   Effect("open", config.llmsFile \o <<"@">> \o top.path)}
           /\ \E ok \in BOOLEAN :
                IF ok
                THEN /\ stack' = [stack EXCEPT ![Len(stack)] =
                                     [top EXCEPT !.i = 1, !.llmsAt = Len(title)]]
                     /\ UNCHANGED <<pc, stdout, exitCode>>
                ELSE ApiThrow(<<"GitHub API error: ", "statusText">>)
    /\ UNCHANGED apiFixed

\* One turn of the loop over the listing in the innermost call.
ApiItem ==
    /\ pc = "processDirectory"
    /\ LET top      == stack[Len(stack)]
           contents == tree[top.path].entries
           rest     == SubSeq(stack, 1, Len(stack) - 1)
       IN  /\ top.i >= 1
           /\ top.i <= Len(contents)
           /\ LET name     == contents[top.i]
                  itemPath == Join(top.path, name)
                  type     == tree[itemPath].kind
                  itemUrl  == <<"https://github.com/">> \o config.owner \o <<"/">>
                              \o config.repo \o <<"/", "blob", "/">> \o config.branch
                              \o <<"/">> \o itemPath
                  raw      == tree[itemPath].content \o <<"\n", "\n">>
                  link     == <<"-", " ", "[">> \o name \o <<"]", "(">> \o itemUrl
                              \o <<")", "\n">>
                  section  == <<"#", "#", " ">> \o name \o <<"\n">>
              IN  IF type = "file" /\ ApiNameMatches(name)
                  THEN \E ok \in BOOLEAN :
                         IF ok
                         THEN /\ fs' = [fs EXCEPT
                                    ![config.llmsFullFile].content = WriteAt(@, top.fullAt, raw),
                                    ![config.llmsFile].content = WriteAt(@, top.llmsAt, link)]
                              /\ stack' = Append(rest,
                                     [top EXCEPT !.i = @ + 1,
                                                 !.fullAt = @ + Len(raw),
                                                 !.llmsAt = @ + Len(link)])
                              /\ stdout' = Append(stdout, Out("Processing", itemPath))
                              /\ UNCHANGED <<pc, exitCode>>
                         ELSE /\ ApiThrow(<<"Content fetch error: ", "statusText">>)
                              /\ UNCHANGED fs
                  ELSE IF type = "dir" /\ ~ApiSkipDirectory(name, config.skipFolders)
                  THEN /\ fs' = [fs EXCEPT
                             ![config.llmsFile].content = WriteAt(@, top.llmsAt, section)]
                       /\ stack' = rest \o
                              <<[top EXCEPT !.i = @ + 1, !.llmsAt = @ + Len(section)],
                                ApiCalled(itemPath)>>
                       /\ UNCHANGED <<pc, stdout, exitCode>>
                  ELSE /\ stack' = Append(rest, [top EXCEPT !.i = @ + 1])
                       /\ stdout' = Append(stdout, Out("Skipping", itemPath))
                       /\ UNCHANGED <<fs, pc, exitCode>>
    /\ UNCHANGED <<apiFixed, effects>>

\* The innermost call has gone through its listing: it closes its writers
\* and returns; when it is the call main made, main prints the two names
\* and ends.
ApiReturn ==
    /\ pc = "processDirectory"
    /\ LET top == stack[Len(stack)]
       IN  /\ top.i > Len(tree[top.path].entries)
           /\ stack' = SubSeq(stack, 1, Len(stack) - 1)
           /\ IF Len(stack) = 1
              THEN /\ stdout' = Append(stdout, Out("written", <<>>))
                   /\ Exit(0)
              ELSE UNCHANGED <<pc, stdout, exitCode>>
    /\ UNCHANGED <<apiFixed, fs, effects>>

ApiNext ==
    \/ ApiMain
    \/ ApiOpen
    \/ ApiItem
    \/ ApiReturn

SpecApi == ApiInit /\ [][ApiNext]_vars

-----------------------------------------------------------------------------
(* Properties.  They are stated in terms of the file system and the
   configuration, not in terms of the walker's own predicates. *)

root == Normalize(dirPath)

\* The components of p below the traversal root.
Below(p) == SubSeq(Components(p), Len(Components(root)) + 1, Len(Components(p)))

IsUnder(r, p) ==
    /\ Len(Components(r)) < Len(Components(p))
    /\ SubSeq(Components(p), 1, Len(Components(r))) = Components(r)
    /\ (Head(p) = "/tmp") = (Head(r) = "/tmp")

UnderRoot(p) == IsUnder(root, p)

\* The names of the directories on the way from the root down to p.
Ancestors(p) == {Below(p)[k] : k \in 1..(Len(Below(p)) - 1)}

InSkipList(name) == \E i \in 1..Len(config.skip) : config.skip[i] = name

Hidden(name) == name # <<>> /\ name[1] = "."

BuiltInIgnored(name) ==
    name \in {<<"node_modules">>, <<".", "git">>, <<"dist">>, <<"build">>}

Skipped(name) == InSkipList(name) \/ Hidden(name) \/ BuiltInIgnored(name)

Suffix(s, n) == SubSeq(s, Len(s) - n + 1, Len(s))

Recognized(name) ==
    \/ (Len(name) >= 3 /\ Suffix(name, 3) = <<".", "m", "d">>)
    \/ (Len(name) >= 4 /\ Suffix(name, 4) \in
            {<<".", "m", "d", "x">>, <<".", "t", "x", "t">>, <<".", "r", "s", "t">>})

Excluded(name) ==
    \E i \in 1..Len(config.exclude) :
        /\ Len(config.exclude[i]) <= Len(name)
        /\ Suffix(name, Len(config.exclude[i])) = config.exclude[i]

\* The size limit is a number of megabytes, or there is none.
HasLimit == config.maxSize.kind = "num"

WithinLimit(size) ==
    config.maxSize.kind = "inf"
        \/ (HasLimit /\ size * config.maxSize.den
                            <= config.maxSize.num * 1024 * 1024)

\* The files getDirectory is to return.
Qualifying ==
    {p \in DOMAIN fs :
        /\ fs[p].kind = "file"
        /\ UnderRoot(p)
        /\ \A d \in Ancestors(p) : ~Skipped(d)
        /\ Recognized(Basename(p))
        /\ ~Excluded(Basename(p))
        /\ WithinLimit(fs[p].size)}

Position(xs, x) == CHOOSE i \in 1..Len(xs) : xs[i] = x

\* p comes before q in a depth-first walk that follows the listing order:
\* where their paths part, p's component is listed first.
ListedBefore(p, q) ==
    LET a == Components(p)
        b == Components(q)
        k == CommonPrefixLen(a, b)
        parent == IF k = 0 THEN <<".">> ELSE JoinWith(SubSeq(a, 1, k), <<"/">>)
    IN  /\ k < Len(a)
        /\ k < Len(b)
        /\ Position(fs[parent].entries, a[k + 1]) < Position(fs[parent].entries, b[k + 1])

\* getDirectory has returned to main, and main has done nothing since.
WalkReturned ==
    /\ pc \in {"preview", "analyze", "summary", "writeFiles"}
    /\ stack = <<>>

Walking == pc = "processDirectory" \/ WalkReturned

\* C1: when getDirectory returns, every regular file under the root that has
\* no skipped ancestor, a recognized extension, no excluded suffix and a size
\* within the limit is in the returned list exactly once, with its path
\* relative to the root at the same index, and the list is in depth-first
\* listing order.
C1_CompleteAndOrdered ==
    (WalkReturned /\ config.maxSize.kind # "nan") =>
        /\ \A p \in Qualifying :
              /\ Cardinality({i \in 1..Len(fullPaths) : fullPaths[i] = p}) = 1
              /\ \E i \in 1..Len(files) :
                    fullPaths[i] = p /\ files[i] = JoinWith(Below(p), <<"/">>)
        /\ \A i, j \in 1..Len(fullPaths) :
              i < j => ListedBefore(fullPaths[i], fullPaths[j])

\* C1 witness: a walk returned four or more files, one from a subdirectory
\* listed before a file of the root, and passed over a file it had to leave.
C1_Witness ==
    /\ WalkReturned
    /\ Len(files) >= 4
    /\ Cardinality(Qualifying) >= 4
    /\ \E i, j \in 1..Len(files) :
          i < j /\ Len(Components(files[i])) = 2 /\ Len(Components(files[j])) = 1
    /\ \E p \in DOMAIN fs :
          fs[p].kind = "file" /\ UnderRoot(p) /\ Recognized(Basename(p))
              /\ p \notin Qualifying

\* C2: every path in the list denotes a regular file (no directory, no
\* symbolic link), with a recognized extension, no excluded suffix and a size
\* within the limit.
C2_Sound ==
    Walking =>
        \A i \in 1..Len(fullPaths) :
            /\ fs[fullPaths[i]].kind = "file"
            /\ Recognized(Basename(fullPaths[i]))
            /\ ~Excluded(Basename(fullPaths[i]))
            /\ WithinLimit(fs[fullPaths[i]].size)

\* C3: no directory with a skipped name below the root is ever listed, and no
\* matched path passes through one.
C3_SkippedNeverVisited ==
    /\ \A d \in listed : \A k \in 1..Len(Below(d)) : ~Skipped(Below(d)[k])
    /\ \A i \in 1..Len(fullPaths) :
          \A d \in Ancestors(fullPaths[i]) : ~Skipped(d)

HasFileBehind(Kind(_)) ==
    \E p \in DOMAIN fs :
        /\ fs[p].kind = "file"
        /\ UnderRoot(p)
        /\ Recognized(Basename(p))
        /\ \E d \in Ancestors(p) : Kind(d)

\* C3 witness: a walk returned from a tree that holds recognized files behind
\* a directory of the skip list, a hidden one and a built-in ignored one, one
\* of them two levels down.
C3_Witness ==
    /\ WalkReturned
    /\ HasFileBehind(InSkipList)
    /\ HasFileBehind(Hidden)
    /\ HasFileBehind(BuiltInIgnored)
    /\ \E p \in DOMAIN fs :
          fs[p].kind = "file" /\ UnderRoot(p) /\ Len(Below(p)) = 3
              /\ Skipped(Below(p)[2]) /\ ~Skipped(Below(p)[1])
    /\ Len(files) >= 2

-----------------------------------------------------------------------------
(* The outputs *)

llms == llmsFilePath(config)

llmsFull == llmsFullFilePath(config)

Wrote(p) == Effect("writeTextFile", p) \in effects

\* writeFiles has run to its end in this run.
WriterSucceeded ==
    /\ pc \in {"finish", "done"}
    /\ \E k \in 1..Len(stdout) : stdout[k].kind = "written"

Lines(text) == Split(text, "\n")

IsLinkLine(line) == Len(line) >= 3 /\ SubSeq(line, 1, 3) = <<"-", " ", "[">>

FirstIndex(line, atom) ==
    CHOOSE i \in 1..Len(line) : line[i] = atom /\ \A j \in 1..(i - 1) : line[j] # atom

\* The link entries of a link index, top to bottom, each read back as its
\* text (between "[" and "]") and its target (between "(" and the final ")").
LinkEntries(text) ==
    LET ls == SelectSeq(Lines(text), IsLinkLine)
    IN  [k \in 1..Len(ls) |->
            LET close == FirstIndex(ls[k], "]")
            IN  [text   |-> SubSeq(ls[k], 4, close - 1),
                 target |-> SubSeq(ls[k], close + 2, Len(ls[k]) - 1),
                 closed |-> ls[k][close + 1] = "(" /\ ls[k][Len(ls[k])] = ")"]]

\* C4: after writeFiles has succeeded, the link index holds one link entry per
\* matched file and no other, in matched order, the i-th with the base name of
\* the i-th file as text and its path relative to the traversal root as target.
C4_LinkIndex ==
    WriterSucceeded =>
        LET entries == LinkEntries(fs[llms].content)
        IN  /\ Len(entries) = Len(fullPaths)
            /\ \A i \in 1..Len(entries) :
                  /\ entries[i].closed
                  /\ entries[i].text = Last(Components(fullPaths[i]))
                  /\ entries[i].target = JoinWith(Below(fullPaths[i]), <<"/">>)
                  /\ entries[i].target = files[i]

\* C4 witness: a link index was written for three or more files, one of them
\* in a subdirectory, so that its target differs from its text.
C4_Witness ==
    /\ WriterSucceeded
    /\ Len(files) >= 3
    /\ \E i \in 1..Len(files) : Len(Components(files[i])) >= 2
    /\ Len(LinkEntries(fs[llms].content)) = Len(files)

RECURSIVE Concatenated(_, _)
\* The texts of the files at paths, in order, a blank line between
\* consecutive ones.
Concatenated(f, paths) ==
    IF paths = <<>> THEN <<>>
    ELSE IF Len(paths) = 1 THEN f[Resolve(f, paths[1])].content
    ELSE f[Resolve(f, paths[1])].content \o <<"\n", "\n">> \o Concatenated(f, Tail(paths))

\* C5: whatever the order in which the reads complete, the step that writes
\* the full-content output leaves in it the texts of the matched files, as
\* they were when read, in matched order and separated by a blank line.
C5_ContentInListOrder ==
    [][(pc = "writeFull" /\ pc' = "finish") =>
          fs'[llmsFull].content = Concatenated(fs, fullPaths)]_vars

\* C5 witness: the full-content output was written from three or more files
\* whose texts all differ.
C5_Witness ==
    /\ WriterSucceeded
    /\ Len(fullPaths) >= 3
    /\ \A i, j \in 1..Len(fullPaths) : i # j => fileContents[i] # fileContents[j]
    /\ pending = {}

\* C6: when a run has ended, it has written both outputs or neither.
C6_NoPartialSuccess ==
    pc = "done" => (Wrote(llms) <=> Wrote(llmsFull))

BothWritten(e) ==
    /\ Effect("writeTextFile", llms) \in e
    /\ Effect("writeTextFile", llmsFull) \in e

\* C7: when the second of two successful runs on the same command line has
\* written its outputs, they are what the first run had written.
C7_Idempotent ==
    (/\ run = 2
     /\ pc = "done"
     /\ exitCode = 0
     /\ prev.exitCode = 0
     /\ BothWritten(effects)
     /\ BothWritten(prev.effects)) =>
        /\ fs[llms].content = fs0[llms].content
        /\ fs[llmsFull].content = fs0[llmsFull].content

\* The recognized files of the tree that no skipped directory hides and no
\* exclude entry drops.
Candidates ==
    {p \in DOMAIN fs :
        /\ fs[p].kind = "file"
        /\ UnderRoot(p)
        /\ \A d \in Ancestors(p) : ~Skipped(d)
        /\ Recognized(Basename(p))
        /\ ~Excluded(Basename(p))}

Matched(p) == \E i \in 1..Len(fullPaths) : fullPaths[i] = p

\* size is exactly the limit of num/den megabytes
AtLimit(size) == size * config.maxSize.den = config.maxSize.num * 1024 * 1024

\* C8: with a limit of M megabytes, a candidate file of exactly M*1024*1024
\* bytes is matched and one of a byte more is not; with no limit, every
\* candidate file is matched.
C8_SizeBoundary ==
    WalkReturned =>
        /\ HasLimit =>
              \A p \in Candidates :
                  /\ AtLimit(fs[p].size) => Matched(p)
                  /\ AtLimit(fs[p].size - 1) => ~Matched(p)
        /\ config.maxSize.kind = "inf" => \A p \in Candidates : Matched(p)

\* C8 witness: a walk with a limit returned; it matched a file exactly at the
\* limit and left out a file one byte over it.
C8_Witness ==
    /\ WalkReturned
    /\ HasLimit
    /\ \E p \in Candidates : AtLimit(fs[p].size) /\ Matched(p)
    /\ \E p \in Candidates : AtLimit(fs[p].size - 1) /\ ~Matched(p)

OutputPaths == {llms, llmsFull, Bak(llms), Bak(llmsFull)}

\* The path is as it was when the run began: absent, or the same node.
Untouched(p) ==
    /\ Exists(fs, p) <=> Exists(fs0, p)
    /\ Exists(fs, p) => fs[p] = fs0[p]

InTemporaryDirectory(p) == Head(p) = "/tmp"

\* C9: a run with --preview writes no output and no backup, and leaves every
\* path outside the temporary directory as it was, whatever the operator
\* answers.
C9_PreviewReadOnly ==
    (config.preview /\ pc = "done") =>
        /\ ~Wrote(llms)
        /\ ~Wrote(llmsFull)
        /\ Did("copyFile") = {}
        /\ \A p \in (DOMAIN fs \cup DOMAIN fs0) :
              ~InTemporaryDirectory(p) => Untouched(p)

Printed(kind) == \E k \in 1..Len(stdout) : stdout[k].kind = kind

\* C10: a run with --analyze never calls writeFiles and never creates or
\* changes an output or a .bak file; once the statistics are printed the
\* process has exited with code 0, and a run that exits with code 0 has
\* printed them unless the operator declined at the preview prompt.
C10_AnalyzeNeverWrites ==
    config.analyze =>
        /\ Did("writeFiles") = {}
        /\ Did("writeTextFile") = {}
        /\ Did("copyFile") = {}
        /\ \A p \in OutputPaths : Untouched(p)
        /\ Printed("analysis") => (pc = "done" /\ exitCode = 0)
        /\ (pc = "done" /\ exitCode = 0 /\ ~config.preview) => Printed("analysis")

\* C10 witness: an --analyze run over two or more files has printed its
\* statistics and exited, with earlier outputs in the output directory.
C10_Witness ==
    /\ config.analyze
    /\ pc = "done"
    /\ exitCode = 0
    /\ Printed("analysis")
    /\ Len(files) >= 2
    /\ Exists(fs, llms)
    /\ Exists(fs, llmsFull)

\* ------------------------------------------------------------------------
\* Statistics of --analyze

\* The whitespace-delimited words of a text: its maximal runs of characters
\* that are not white space.
WordCount(content) ==
    Cardinality({i \in 1..Len(content) :
                    /\ ~IsSpace(content[i])
                    /\ (i = 1 \/ IsSpace(content[i - 1]))})

RECURSIVE WordsIn(_)
WordsIn(paths) ==
    IF paths = <<>> THEN 0
    ELSE WordCount(fs[Resolve(fs, Head(paths))].content) + WordsIn(Tail(paths))

ParentFolders == {Dirname(fullPaths[i]) : i \in 1..Len(fullPaths)}

Analysis == (CHOOSE k \in 1..Len(stdout) : stdout[k].kind = "analysis")

\* C11: the statistics --analyze prints give the length of the matched list
\* as the file count, the number of distinct parent directories of the
\* matched files as the folder count, and the sum over the matched files of
\* their whitespace-delimited words as the word count, whatever white space
\* the files begin or end with.
C11_AnalyzeStatistics ==
    Printed("analysis") =>
        /\ stdout[Analysis].data.fileCount = Len(files)
        /\ stdout[Analysis].data.folders = Cardinality(ParentFolders)
        /\ stdout[Analysis].data.totalWords = WordsIn(fullPaths)

\* ------------------------------------------------------------------------
\* --summary

Summarized == (CHOOSE k \in 1..Len(stdout) : stdout[k].kind = "summary")

\* C12: a run with --summary has written both output files by the time it
\* prints the summary, and the summary lists every matched file path once,
\* in matched order.
C12_SummaryAfterWrite ==
    Printed("summary") =>
        /\ Wrote(llms)
        /\ Wrote(llmsFull)
        /\ stdout[Summarized].data = files

\* ------------------------------------------------------------------------
\* The command line

SourceSelectors == {Opt("--local"), Opt("--github"), Opt("--gitlab")}

\* The options that stand alone; every other option is followed by its value.
Flags ==
    {Opt("--summary"), Opt("--analyze"), Opt("--preview"),
     Opt("--interactive"), Opt("--backup"), Opt("--help")}

\* The positions of a command line that hold an option, reading it from
\* position i with every option in Known followed by its value unless it is
\* a flag; position 0 stands for a token that is not in Known or for a
\* value that is missing.
RECURSIVE OptionPositions(_, _, _)
OptionPositions(a, i, Known) ==
    IF i > Len(a) THEN {}
    ELSE IF a[i] \notin Known THEN {0}
    ELSE IF a[i] \in Flags THEN {i} \cup OptionPositions(a, i + 1, Known)
    ELSE IF i = Len(a) THEN {0}
    ELSE {i} \cup OptionPositions(a, i + 2, Known)

\* A command line made only of options the help text lists, each with its
\* value, and one source selector.
HelpCommand(a) ==
    LET at == OptionPositions(a, 1, helpOption)
    IN  /\ 0 \notin at
        /\ Cardinality({i \in at : a[i] \in SourceSelectors}) = 1

\* C13: a command line made only of options the help text lists, with their
\* values and one source selector, is never rejected as an invalid option.
C13_HelpOptionsRecognized ==
    (pc # "parse" /\ HelpCommand(args)) => config.error # "invalid"

\* The option loop reads a token that is not a supported option: it reads
\* the command line from position i, every option but a flag followed by its
\* value, and reads nothing after --help.
RECURSIVE ReadsUnrecognized(_, _)
ReadsUnrecognized(a, i) ==
    IF i > Len(a) THEN FALSE
    ELSE IF a[i] \notin supportedOptions THEN TRUE
    ELSE IF a[i] = Opt("--help") THEN FALSE
    ELSE IF a[i] \in Flags THEN ReadsUnrecognized(a, i + 1)
    ELSE ReadsUnrecognized(a, i + 2)

\* C14: when a token read in option position is not a recognized option, the
\* process has exited with code 1 and has made no clone, traversal, backup
\* or output write: it has made no call on the file system or on git at all.
C14_UnrecognizedAborts ==
    (pc # "parse" /\ ReadsUnrecognized(args, 1)) =>
        /\ pc = "done"
        /\ exitCode = 1
        /\ effects = {}
        /\ fs = fs0

\* C14 witness: a run whose command line names a remote repository and then
\* an unrecognized option has ended, with earlier outputs in place.
C14_Witness ==
    /\ pc = "done"
    /\ exitCode = 1
    /\ ReadsUnrecognized(args, 1)
    /\ IsRemote(config)
    /\ Exists(fs, llms)

\* ------------------------------------------------------------------------
\* Output names

Given(o) == \E i \in 1..Len(args) - 1 : args[i] = Opt(o)

\* The value the command line gives option o.
ValueOf(o) == args[(CHOOSE i \in 1..Len(args) - 1 : args[i] = Opt(o)) + 1]

\* The file base.format under the output directory.
Named(base, format) == Join(config.outputDir, base \o <<".">> \o format)

\* C15: a run given --llms b, --llms-full c and --format f, in whatever
\* order, that has written its outputs has written them to b.f and c.f
\* under the output directory.
C15_NamesWhateverTheOrder ==
    (Given("--llms") /\ Given("--llms-full") /\ Given("--format")
        /\ WriterSucceeded) =>
        /\ Wrote(Named(ValueOf("--llms"), ValueOf("--format")))
        /\ Wrote(Named(ValueOf("--llms-full"), ValueOf("--format")))

\* ------------------------------------------------------------------------
\* Remote sources

RemoteSource ==
    IF Given("--github") THEN ValueOf("--github") ELSE ValueOf("--gitlab")

\* owner/repo, or the URL of a repository, with nothing after the
\* repository's name: no branch and no path.
NamesNoBranch(source) == Cardinality({i \in 1..Len(source) : source[i] = "/"}) = 1

\* The branch a call of git clone asked for.
BranchOf(call) ==
    LET at == CHOOSE i \in 1..Len(call) : call[i] = "#"
    IN  SubSeq(call, at + 1, Len(call))

\* C16: for a remote source that names no branch, git clone is asked for
\* the branch --branch gives, and for main when there is no --branch.
C16_BranchCloned ==
    \A call \in Did("clone") :
        NamesNoBranch(RemoteSource) =>
            BranchOf(call) = IF Given("--branch") THEN ValueOf("--branch")
                             ELSE <<"main">>

\* The temporary directories this run has made.
TemporaryDirectories == Did("makeTempDir")

\* C17: for a remote source, with or without a path in its URL, once the
\* outputs are written and the process has ended, the temporary directory
\* made for the clone does not exist.
C17_CloneRemovedOnSuccess ==
    (pc = "done" /\ WriterSucceeded) =>
        \A t \in TemporaryDirectories : ~Exists(fs, t)

\* C18: for a remote source and without --preview, when the run has ended
\* with exit code 0, by writing the outputs, by --summary or by --analyze,
\* the temporary directory made for the clone does not exist.
C18_CloneRemovedInEveryMode ==
    (pc = "done" /\ exitCode = 0 /\ ~config.preview) =>
        \A t \in TemporaryDirectories : ~Exists(fs, t)

\* git has exited with a non-zero status in this run.
GitFailed == Did("gitFailed") # {}

\* The text is a part of the message.
Contains(message, text) ==
    \E i \in 0..(Len(message) - Len(text)) :
        SubSeq(message, i + 1, i + Len(text)) = text

\* C19: when git has exited with a non-zero status, the process has ended,
\* in that very step and so without a second clone, with exit code 1 and an
\* error message that holds what git wrote to its standard error; no
\* directory has been listed and no output or backup has been created or
\* changed.
C19_FailedCloneAborts ==
    GitFailed =>
        /\ pc = "done"
        /\ exitCode = 1
        /\ \E k \in 1..Len(stdout) :
              /\ stdout[k].kind = "error"
              /\ \A text \in Did("gitFailed") : Contains(stdout[k].data, text)
        /\ Cardinality(Did("clone")) = 1
        /\ listed = {}
        /\ Did("writeFiles") = {}
        /\ Did("writeTextFile") = {}
        /\ Did("copyFile") = {}
        /\ \A p \in OutputPaths : Untouched(p)

\* C19 witness: git has failed in a run that found earlier outputs in place.
C19_Witness ==
    /\ GitFailed
    /\ pc = "done"
    /\ Exists(fs, llms)
    /\ Exists(fs, llmsFull)

\* ------------------------------------------------------------------------
\* --backup

\* The output was there when the run began.
Existed(p) == Exists(fs0, p)

\* C20: after a successful run with --backup, for each of the two output
\* paths that existed when the run began its .bak sibling holds the content
\* the output had then, and for each that did not exist no .bak sibling has
\* been created.
C20_BackupKeepsPrevious ==
    (config.backup /\ pc = "done" /\ WriterSucceeded) =>
        \A p \in {llms, llmsFull} :
            IF Existed(p)
            THEN /\ Exists(fs, Bak(p))
                 /\ fs[Bak(p)].kind = "file"
                 /\ fs[Bak(p)].content = fs0[p].content
            ELSE /\ ~Exists(fs, Bak(p)) \/ Untouched(Bak(p))
                 /\ Effect("copyFile", Bak(p)) \notin effects

\* C20 witness: a run with --backup has succeeded where the link index
\* existed before it, with other content than the run wrote, and the full
\* content did not.
C20_Witness ==
    /\ config.backup
    /\ pc = "done"
    /\ WriterSucceeded
    /\ Existed(llms)
    /\ ~Existed(llmsFull)
    /\ fs0[llms].content # fs[llms].content
    /\ Len(files) >= 1

\* ------------------------------------------------------------------------
\* The heading of the link index

\* The name of the source: the repository's name for a remote source, the
\* last component of the directory for a local one.
SourceName ==
    IF Given("--local") THEN Last(Components(ValueOf("--local")))
    ELSE LET named == IF Head(RemoteSource) \in {"https://github.com/", "https://gitlab.com/"}
                      THEN Tail(RemoteSource) ELSE RemoteSource
         IN  Split(named, "/")[2]

IsHeadingLine(line) == line # <<>> /\ Head(line) = "#"

CannotBeCopied(p) == Existed(p) /\ ~fs0[p].readable

\* C22: in a run with --backup where the copy of an output fails with an
\* error other than not-found, writeFiles gets no further than the backup:
\* the run ends with exit code 1 and an error message, and neither output is
\* written, truncated or otherwise changed.
C22_BackupFailureWritesNothing ==
    (config.backup /\ Did("writeFiles") # {}
        /\ \E p \in {llms, llmsFull} : CannotBeCopied(p)) =>
        /\ pc \in {"backupLlms", "backupFull", "done"}
        /\ pc = "done" => (exitCode = 1 /\ Printed("error"))
        /\ Did("writeTextFile") = {}
        /\ Untouched(llms)
        /\ Untouched(llmsFull)

\* C22 witness: the link index was backed up, the copy of the full content
\* failed, and the run has ended; there were files to write.
C22_Witness ==
    /\ config.backup
    /\ pc = "done"
    /\ CannotBeCopied(llmsFull)
    /\ Effect("copyFile", Bak(llms)) \in effects
    /\ Len(files) >= 1

\* ------------------------------------------------------------------------
\* The variant src/index.ts: --interactive

IsConfirm(out) == out.kind = "confirm"

\* The prompts for single files this run has made, in the order made.
Asked == SelectSeq(stdout, IsConfirm)

Yes(answer) == answer \in {<<"y">>, <<"Y">>}

\* The items of list whose prompt, among the first n, was answered y or Y.
RECURSIVE Chosen(_, _)
Chosen(list, n) ==
    IF n = 0 THEN <<>>
    ELSE IF Yes(Asked[n].data.answer) THEN Append(Chosen(list, n - 1), list[n])
    ELSE Chosen(list, n - 1)

\* The contents of the files at paths, joined by a blank line.
ContentsOf(paths) ==
    JoinWith([k \in 1..Len(paths) |-> fs[Resolve(fs, paths[k])].content],
             <<"\n", "\n">>)

\* C23: in the variant src/index.ts, the prompts of --interactive are for
\* the matched files, one each, in matched order; the files confirmed so far
\* are those answered y or Y, in matched order, each relative path with its
\* own full path; the output writer is called after the last prompt, with
\* exactly the confirmed files, and the outputs it writes hold their links
\* and their contents.
C23_InteractiveSelection ==
    /\ Len(Asked) = iFile
    /\ iFile <= Len(files)
    /\ \A k \in 1..Len(Asked) :
          /\ Asked[k].data.file = files[k]
          /\ Asked[k].data.index = k
    /\ config.interactive =>
          /\ confirmFiles = Chosen(files, iFile)
          /\ confirmFullPaths = Chosen(fullPaths, iFile)
          /\ Did("writeFiles") # {} =>
                /\ iFile = Len(files)
                /\ Did("writeFiles") = {JoinWith(Chosen(files, iFile), <<",">>)}
          /\ pc = "finish" =>
                /\ [k \in 1..Len(confirmFiles) |->
                       LinkEntries(fs[IndexLlmsFilePath(config)].content)[k].target]
                   = Chosen(files, iFile)
                /\ fs[IndexLlmsFullFilePath(config)].content
                   = ContentsOf(Chosen(fullPaths, iFile))

\* C23 witness: a run with --interactive has written its outputs after
\* prompts answered Y, n and with no input, with a file in a subdirectory
\* confirmed and the first file left out.
C23_Witness ==
    /\ config.interactive
    /\ pc = "done"
    /\ exitCode = 0
    /\ Len(files) >= 3
    /\ \E k \in 1..Len(Asked) : Asked[k].data.answer = <<"Y">>
    /\ \E k \in 1..Len(Asked) : Asked[k].data.answer = <<"n">>
    /\ \E k \in 1..Len(Asked) : Asked[k].data.answer = Undefined
    /\ ~Yes(Asked[1].data.answer)
    /\ \E k \in 1..Len(confirmFiles) : Includes(confirmFiles[k], "/")

\* ------------------------------------------------------------------------
\* The variant src/index.ts: --preview and --interactive stand alone

\* The options the command line gives, the source selector apart.
OptionsGiven ==
    ({args[k] : k \in 1..Len(args)}
        \cap (helpOption \cup {Opt("--verbose"), Opt("--help")}))
    \ SourceSelectors

\* --preview or --interactive is given, and another option with it.
ModeWithOthers ==
    /\ Opt("--preview") \in OptionsGiven \/ Opt("--interactive") \in OptionsGiven
    /\ Cardinality(OptionsGiven) >= 2

\* C24: in the variant src/index.ts, a run given --preview or --interactive
\* together with any other option besides the source selector has exited
\* with code 1 once the command line is read, with no clone, no traversal
\* and no write made.
C24_ModesStandAlone ==
    (pc # "parse" /\ ModeWithOthers) =>
        /\ pc = "done"
        /\ exitCode = 1
        /\ effects = {}
        /\ fs = fs0

\* The times an output file has been opened with truncate in this run.
Truncations(file) ==
    {call \in Did("open") : SubSeq(call, 1, Len(file) + 1) = file \o <<"@">>}

\* The content of the matching files of the listing of path from entry k on
\* and of its subdirectories that are not in the skip list, each followed by
\* a blank line, in listing order.
RECURSIVE ListedContent(_, _)
ListedContent(path, k) ==
    IF k > Len(tree[path].entries) THEN <<>>
    ELSE LET name == tree[path].entries[k]
             item == Join(path, name)
             here == IF /\ tree[item].kind = "file"
                        /\ \E ext \in {<<".", "m", "d">>, <<".", "m", "d", "x">>,
                                       <<".", "t", "x", "t">>, <<".", "r", "s", "t">>} :
                               EndsWith(name, ext)
                     THEN tree[item].content \o <<"\n", "\n">>
                     ELSE IF /\ tree[item].kind = "dir"
                             /\ \A j \in 1..Len(config.skipFolders) :
                                    config.skipFolders[j] # name
                     THEN ListedContent(item, 1)
                     ELSE <<>>
         IN  here \o ListedContent(path, k + 1)

\* C25: in the contents-API variant each output file is truncated once per
\* run, and when processDirectory has returned for the root the full-content
\* output holds the content of every matching file of the root listing and
\* of every subdirectory that is not skipped, in listing order: a recursion
\* into a subdirectory discards or overwrites nothing written for its parent.
C25_TruncatedOncePerRun ==
    (pc = "done" /\ exitCode = 0) =>
        /\ Cardinality(Truncations(config.llmsFullFile)) = 1
        /\ Cardinality(Truncations(config.llmsFile)) = 1
        /\ fs[config.llmsFullFile].content = ListedContent(<<".">>, 1)

\* The path that rel names when it is taken from the directory base.
FromBase(base, rel) ==
    IF base = <<".">> THEN rel ELSE base \o <<"/">> \o rel

\* xs is ys or ys with entries added at its end.
Extends(xs, ys) == Len(xs) >= Len(ys) /\ SubSeq(xs, 1, Len(ys)) = ys

\* files and fullPaths name the same entries, index by index.
Paired ==
    /\ Len(files) = Len(fullPaths)
    /\ \A i \in 1..Len(files) : FromBase(dirPath, files[i]) = fullPaths[i]

RECURSIVE BlocksOf(_, _)
\* The texts of the files the link entries point to from the traversal root,
\* top to bottom, a blank line between consecutive ones.
BlocksOf(f, entries) ==
    IF entries = <<>> THEN <<>>
    ELSE LET block == f[Resolve(f, FromBase(dirPath, entries[1].target))].content
         IN  IF Len(entries) = 1 THEN block
             ELSE block \o <<"\n", "\n">> \o BlocksOf(f, Tail(entries))

\* C27: the two outputs of one run describe the same files in the same
\* order: when writeFiles succeeds, the full-content output is made of one
\* content block per link entry of the link index, and the i-th block is the
\* text of the file the i-th link entry points to.
C27_OutputsAgree ==
    [][(pc = "writeFull" /\ pc' = "finish") =>
          fs'[llmsFull].content = BlocksOf(fs, LinkEntries(fs'[llms].content))]_vars

\* C27 witness: both outputs were written for three or more files with
\* different texts, one of them in a subdirectory.
C27_Witness ==
    /\ pc = "finish"
    /\ WriterSucceeded
    /\ LET entries == LinkEntries(fs[llms].content)
       IN  /\ Len(entries) >= 3
           /\ \E i \in 1..Len(entries) : InSeq(entries[i].target, "/")
           /\ \A i, j \in 1..Len(entries) :
                  i # j => BlocksOf(fs, <<entries[i]>>) # BlocksOf(fs, <<entries[j]>>)
    /\ fs[llmsFull].content # <<>>

\* The outputs that the run before this one wrote inside the traversal root
\* of this one, under a name with a recognized extension that no exclude
\* entry drops.
OwnOutputs ==
    {p \in {llms, llmsFull} :
        /\ Effect("writeTextFile", p) \in prev.effects
        /\ UnderRoot(p)
        /\ Recognized(Basename(p))
        /\ ~Excluded(Basename(p))}

\* Those of them that lie behind no skipped directory and whose size, as the
\* run before left it, is within the limit.
AdmittedOutputs ==
    {p \in OwnOutputs :
        /\ \A d \in Ancestors(p) : ~Skipped(d)
        /\ WithinLimit(fs0[p].size)}

SecondWalkReturned == run = 2 /\ WalkReturned

SecondRunWrote == run = 2 /\ pc = "done" /\ exitCode = 0 /\ Wrote(llmsFull)

\* C28 as stated: the outputs that one run wrote inside the traversal root
\* under a recognized, non-excluded name are in the matched list of the next
\* run over the same root, and the full-content output of that run contains
\* them.
C28_OutputsMatchedNextRun ==
    /\ SecondWalkReturned => \A p \in OwnOutputs : Matched(p)
    /\ SecondRunWrote =>
          \A p \in OwnOutputs : Contains(fs[llmsFull].content, fs0[p].content)

\* C28 amended: the walker does not exempt the outputs of the program, it
\* treats them as any other file: an output that one run wrote inside the
\* traversal root under a recognized, non-excluded name is in the matched
\* list of the next run over the same root exactly when no directory between
\* the root and the output is skipped and its size is within the limit; the
\* full-content output of that run then contains the full-content output of
\* the run before, and the link index as that run itself has rewritten it.
C28_OutputsMatchedWhenAdmitted ==
    /\ SecondWalkReturned => \A p \in OwnOutputs : Matched(p) <=> p \in AdmittedOutputs
    /\ SecondRunWrote =>
          /\ llmsFull \in AdmittedOutputs =>
                Contains(fs[llmsFull].content, fs0[llmsFull].content)
          /\ llms \in AdmittedOutputs =>
                Contains(fs[llmsFull].content, fs[llms].content)

\* C28 witness: the second of two runs has written its outputs after a walk
\* that matched both outputs of the first run along with two files or more
\* of the source, and its link index is no longer the one the first run wrote.
C28_Witness ==
    /\ SecondRunWrote
    /\ AdmittedOutputs = {llms, llmsFull}
    /\ Matched(llms)
    /\ Matched(llmsFull)
    /\ Len(files) >= 4
    /\ fs[llms].content # fs0[llms].content

\* Where value is cut on commas: before its first item, at each comma and
\* after its last item.
Cuts(value) == {0, Len(value) + 1} \cup {k \in 1..Len(value) : value[k] = ","}

\* The pieces of the --exclude value between consecutive cuts, the empty
\* ones too; none when the option is not given.
ExcludeEntries ==
    IF ~Given("--exclude") THEN {}
    ELSE LET value == ValueOf("--exclude")
         IN  {SubSeq(value, a + 1, b - 1) :
                 <<a, b>> \in {c \in Cuts(value) \X Cuts(value) :
                                  /\ c[1] < c[2]
                                  /\ \A k \in Cuts(value) : ~(c[1] < k /\ k < c[2])}}

\* The last Len(entry) items of name are entry.
HasSuffix(name, entry) ==
    /\ Len(entry) <= Len(name)
    /\ \A k \in 1..Len(entry) : name[Len(name) - Len(entry) + k] = entry[k]

\* The files that only the exclude filter can keep out of the matched list.
BeforeExclude ==
    {p \in DOMAIN fs :
        /\ fs[p].kind = "file"
        /\ UnderRoot(p)
        /\ \A d \in Ancestors(p) : ~Skipped(d)
        /\ Recognized(Basename(p))
        /\ WithinLimit(fs[p].size)}

\* C29: exclude entries are compared as plain suffixes of the file name: a
\* file that passes the other filters is left out of the matched list
\* exactly when its name ends with one of the pieces of the --exclude value
\* between commas; so an entry that is a proper suffix of an extension drops
\* every extension ending in it, and an empty entry drops every file.
C29_ExcludeIsPlainSuffix ==
    WalkReturned =>
        /\ \A p \in BeforeExclude :
              Matched(p) <=> ~\E e \in ExcludeEntries : HasSuffix(Basename(p), e)
        /\ <<>> \in ExcludeEntries => files = <<>>
        /\ <<"t">> \in ExcludeEntries =>
              \A i \in 1..Len(files) : files[i][Len(files[i])] # "t"

\* C29 witness: a walk with the single exclude entry "t" returned; it left
\* out a .txt file and a .rst file and matched an .md file.
C29_Witness ==
    /\ WalkReturned
    /\ ExcludeEntries = {<<"t">>}
    /\ \E p, q, r \in BeforeExclude :
          /\ HasSuffix(Basename(p), <<".", "t", "x", "t">>) /\ ~Matched(p)
          /\ HasSuffix(Basename(q), <<".", "r", "s", "t">>) /\ ~Matched(q)
          /\ HasSuffix(Basename(r), <<".", "m", "d">>) /\ Matched(r)

\* The directories below the traversal root that no skipped name hides:
\* neither their own name nor that of a directory above them is skipped.
OpenDirectories ==
    {d \in DOMAIN fs :
        /\ fs[d].kind = "dir"
        /\ UnderRoot(d)
        /\ \A k \in 1..Len(Below(d)) : ~Skipped(Below(d)[k])}

\* C30: the skip predicates apply only to directories found below the root
\* and never to files: once the walk has begun the root has been listed,
\* whatever its own name; when the walk returns, the directories listed are
\* the root and the directories below it that no skipped name hides, and a
\* file that passes the extension, exclude and size filters behind no
\* skipped directory is matched even when its own name begins with "." or
\* equals a skip entry.
C30_SkipOnlyDirectoriesBelowRoot ==
    /\ Walking => root \in listed
    /\ WalkReturned =>
          /\ listed = {root} \cup OpenDirectories
          /\ \A p \in Qualifying : Skipped(Basename(p)) => Matched(p)

\* C30 witness: a walk returned from a root whose own name is in the skip
\* list, having matched a file whose name begins with "." and a file whose
\* name equals a skip entry.
C30_Witness ==
    /\ WalkReturned
    /\ InSkipList(Basename(root))
    /\ \E p, q \in Qualifying :
          /\ Hidden(Basename(p)) /\ Matched(p)
          /\ InSkipList(Basename(q)) /\ Matched(q)

====
